---------------------------- MODULE Spec2Model ----------------------------
(***************************************************************************)
(* A model of the automated notes generator: the NotesGenerator pipeline   *)
(* (modules/notes_generator.py), the generative backend adapter            *)
(* (modules/llm_summarizer.py) and the rule-based components it calls.     *)
(*                                                                         *)
(* Text is modelled at character level: a Python str is a sequence of      *)
(* one-character strings, so that find, split, strip, lower and the        *)
(* regular expressions of the code are computed, not assumed.              *)
(***************************************************************************)
EXTENDS Integers, Sequences, FiniteSets, TLC

(***************************************************************************)
(* Characters and the str methods the code uses.                           *)
(***************************************************************************)
LowerSeq == <<"a","b","c","d","e","f","g","h","i","j","k","l","m",
              "n","o","p","q","r","s","t","u","v","w","x","y","z">>
UpperSeq == <<"A","B","C","D","E","F","G","H","I","J","K","L","M",
              "N","O","P","Q","R","S","T","U","V","W","X","Y","Z">>
DigitSeq == <<"0","1","2","3","4","5","6","7","8","9">>

LowerChars == {LowerSeq[i] : i \in 1..26}
UpperChars == {UpperSeq[i] : i \in 1..26}
DigitChars == {DigitSeq[i] : i \in 1..10}
SpaceChars == {" ", "\n", "\t"}
WordChars  == LowerChars \cup UpperChars \cup DigitChars \cup {"_"}

IsLower(c) == c \in LowerChars
IsUpper(c) == c \in UpperChars
IsDigit(c) == c \in DigitChars
IsSpace(c) == c \in SpaceChars
IsWordChar(c) == c \in WordChars

\* str.lower() on one character
LowerChar(c) ==
  IF c \in UpperChars THEN LowerSeq[CHOOSE i \in 1..26 : UpperSeq[i] = c] ELSE c

\* str.upper() on one character
UpperChar(c) ==
  IF c \in LowerChars THEN UpperSeq[CHOOSE i \in 1..26 : LowerSeq[i] = c] ELSE c

\* str.lower()
Lower(s) == [i \in 1..Len(s) |-> LowerChar(s[i])]

Min(a, b) == IF a <= b THEN a ELSE b
Max(a, b) == IF a >= b THEN a ELSE b

\* s[i:j] with 0-based Python bounds already clipped to 0..len(s)
Slice(s, i, j) == IF j <= i THEN << >> ELSE SubSeq(s, i + 1, j)

\* s[:n]
Prefix(s, n) == Slice(s, 0, Min(n, Len(s)))

\* s.startswith(p)
StartsWith(s, p) == Len(p) <= Len(s) /\ SubSeq(s, 1, Len(p)) = p

\* s.find(p, from): the least 0-based index >= from where p occurs, else -1
FindFrom(s, p, from) ==
  LET hits == {i \in from..(Len(s) - Len(p)) : SubSeq(s, i + 1, i + Len(p)) = p}
  IN IF hits = {} THEN -1 ELSE CHOOSE i \in hits : \A j \in hits : i <= j

\* s.find(p)
Find(s, p) == FindFrom(s, p, 0)

\* p in s
Contains(s, p) == Find(s, p) # -1

\* s.lstrip(): without its leading whitespace
RECURSIVE LStrip(_)
LStrip(s) == IF s # << >> /\ IsSpace(Head(s)) THEN LStrip(Tail(s)) ELSE s

\* s.rstrip(): without its trailing whitespace
RECURSIVE RStrip(_)
RStrip(s) ==
  IF s # << >> /\ IsSpace(s[Len(s)]) THEN RStrip(SubSeq(s, 1, Len(s) - 1)) ELSE s

\* s.strip()
Strip(s) == RStrip(LStrip(s))

\* s.lstrip(chars): without its leading characters that are in chars
RECURSIVE LStripChars(_, _)
LStripChars(s, chars) ==
  IF s # << >> /\ Head(s) \in chars THEN LStripChars(Tail(s), chars) ELSE s

\* s.split(sep) for a one-character separator: the pieces, empty ones
\* kept; the text is cut at the separator nearest to its middle
RECURSIVE SplitOn(_, _)
SplitOn(s, sep) ==
  LET hits == {i \in 1..Len(s) : s[i] = sep}
      far(i) == IF 2 * i >= Len(s) THEN 2 * i - Len(s) ELSE Len(s) - 2 * i
  IN IF hits = {} THEN <<s>>
     ELSE LET i == CHOOSE k \in hits : \A j \in hits :
                     far(k) < far(j) \/ (far(k) = far(j) /\ k <= j)
          IN SplitOn(SubSeq(s, 1, i - 1), sep)
             \o SplitOn(SubSeq(s, i + 1, Len(s)), sep)

\* s.split(): the maximal runs of non-whitespace characters; the text is
\* cut at the whitespace nearest to its middle and the words of the two
\* parts are put together, which keeps the nesting shallow on long texts
RECURSIVE SplitWS(_)
SplitWS(s) ==
  LET t == LStrip(s)
  IN IF t = << >> THEN << >>
     ELSE LET ends == {i \in 1..Len(t) : IsSpace(t[i])}
              far(i) == IF 2 * i >= Len(t) THEN 2 * i - Len(t)
                        ELSE Len(t) - 2 * i
          IN IF ends = {} THEN <<t>>
             ELSE LET e == CHOOSE k \in ends : \A j \in ends :
                             far(k) < far(j) \/ (far(k) = far(j) /\ k <= j)
                  IN SplitWS(SubSeq(t, 1, e - 1))
                     \o SplitWS(SubSeq(t, e, Len(t)))

\* sep.join(parts)
RECURSIVE Join(_, _)
Join(parts, sep) ==
  IF parts = << >> THEN << >>
  ELSE IF Len(parts) = 1 THEN parts[1]
  ELSE parts[1] \o sep \o Join(Tail(parts), sep)

\* str(n) for a page number 0..99
IntToStr(n) ==
  IF n < 10 THEN <<DigitSeq[n + 1]>>
  ELSE <<DigitSeq[(n \div 10) + 1], DigitSeq[(n % 10) + 1]>>

\* the elements of a sequence that satisfy a test given as a set: those
\* of its first half and then those of its second half
RECURSIVE SelectIn(_, _)
SelectIn(seq, keep) ==
  IF seq = << >> THEN << >>
  ELSE IF Len(seq) = 1 THEN (IF seq[1] \in keep THEN seq ELSE << >>)
  ELSE SelectIn(SubSeq(seq, 1, Len(seq) \div 2), keep)
       \o SelectIn(SubSeq(seq, Len(seq) \div 2 + 1, Len(seq)), keep)


(***************************************************************************)
(* LLMSummarizer (modules/llm_summarizer.py): the parsing of the           *)
(* generative service's responses.                                         *)
(***************************************************************************)
\* U+2022, the bullet character, which is one character of the response
BulletChar == "BULLET"

SEC_DEFINITIONS ==
  <<"D","E","F","I","N","I","T","I","O","N","S",":">>
SEC_CONCEPTS ==
  <<"C","O","N","C","E","P","T","S",":">>
SEC_PROCEDURES ==
  <<"P","R","O","C","E","D","U","R","E","S",":">>
SEC_IMPORTANT_POINTS ==
  <<"I","M","P","O","R","T","A","N","T","_","P","O","I","N","T","S",":">>

\* next_sections in _extract_section
next_sections ==
  {SEC_DEFINITIONS, SEC_CONCEPTS, SEC_PROCEDURES, SEC_IMPORTANT_POINTS}

\* items[:8]
MaxItemsPerSection == 8
\* len(clean_line) > 10
MinItemLen == 10
\* page_text[:100] in the cache key
CachePrefixLen == 100

\* the characters line.lstrip('-•*0123456789. ') removes
BulletStripChars == {"-", BulletChar, "*", ".", " "} \cup DigitChars

\* the test that makes a stripped line a bullet line
IsBulletLine(line) ==
  /\ line # << >>
  /\ \/ line[1] = "-"
     \/ line[1] = BulletChar
     \/ line[1] = "*"
     \/ IsDigit(line[1]) /\ \E i \in 1..Min(3, Len(line)) : line[i] = "."

\* the loop over lines[1:] of _extract_section
RECURSIVE BulletItems(_)
BulletItems(lines) ==
  IF lines = << >> THEN << >>
  ELSE LET line == Strip(Head(lines))
           clean_line == Strip(LStripChars(line, BulletStripChars))
       IN (IF IsBulletLine(line) /\ Len(clean_line) > MinItemLen
           THEN <<clean_line>> ELSE << >>)
          \o BulletItems(Tail(lines))

\* a section that ends where the text ends
SectionEndOfText(text, section_name, start) == Len(text)

\* a section that no DEFINITIONS: header ends
SectionEndPastDefinitions(text, section_name, start) ==
  LET rest == Slice(text, start, Len(text))
      ends == {start + Find(rest, ns) :
                 ns \in {n \in next_sections :
                           /\ n # section_name /\ n # SEC_DEFINITIONS
                           /\ Contains(rest, n)}}
             \cup {Len(text)}
  IN CHOOSE e \in ends : \A f \in ends : e <= f

\* where the section that starts at start ends: the nearest other header
\* found in text[start:], or the end of the text
SectionEnd(text, section_name, start) ==
  LET rest == Slice(text, start, Len(text))
      ends == {start + Find(rest, ns) :
                 ns \in {n \in next_sections : n # section_name /\ Contains(rest, n)}}
             \cup {Len(text)}
  IN CHOOSE e \in ends : \A f \in ends : e <= f

\* LLMSummarizer._extract_section
ExtractSection(text, section_name) ==
  IF ~Contains(text, section_name) THEN << >>
  ELSE LET start == Find(text, section_name)
           end == SectionEnd(text, section_name, start)
           section_text == Slice(text, start, end)
           lines == SplitOn(section_text, "\n")
           items == BulletItems(Tail(lines))
       IN SubSeq(items, 1, Min(Len(items), MaxItemsPerSection))

\* LLMSummarizer._parse_response
ParseResponse(response, page_num) ==
  [page |-> page_num,
   definitions |-> ExtractSection(response, SEC_DEFINITIONS),
   concepts |-> ExtractSection(response, SEC_CONCEPTS),
   procedures |-> ExtractSection(response, SEC_PROCEDURES),
   important_points |-> ExtractSection(response, SEC_IMPORTANT_POINTS)]

\* line.split(':', 1)[1].strip() for a line that holds a colon
AfterColon(line) == Strip(Slice(line, Find(line, <<":">>) + 1, Len(line)))

\* the Q/A line scan of generate_qa; current_q = << >> stands for None or ''
RECURSIVE ScanQA(_, _)
ScanQA(lines, current_q) ==
  IF lines = << >> THEN << >>
  ELSE LET line == Strip(Head(lines))
       IN IF StartsWith(line, <<"Q">>) /\ Contains(line, <<":">>)
          THEN ScanQA(Tail(lines), AfterColon(line))
          ELSE IF StartsWith(line, <<"A">>) /\ Contains(line, <<":">>)
                  /\ current_q # << >>
          THEN <<[question |-> current_q, answer |-> AfterColon(line)]>>
               \o ScanQA(Tail(lines), << >>)
          ELSE ScanQA(Tail(lines), current_q)

\* the parsing half of LLMSummarizer.generate_qa: qa_pairs[:num_questions]
ParseQA(response, num_questions) ==
  LET qa_pairs == ScanQA(SplitOn(response, "\n"), << >>)
  IN SubSeq(qa_pairs, 1, Min(Len(qa_pairs), num_questions))

\* cache_key = str(page_num) + page_text[:100]
CacheKey(page_text, page_num) ==
  IntToStr(page_num) \o Prefix(page_text, CachePrefixLen)


(***************************************************************************)
(* State.                                                                  *)
(***************************************************************************)
VARIABLES
  \* the NotesGenerator instance
  construction, \* what NotesGenerator.__init__ was given and met
  use_llm,      \* self.use_llm
  has_llm,      \* hasattr(self, 'llm_summarizer')
  cache,        \* self.llm_summarizer.cache
  results,      \* self.results
  \* one generate_notes call
  pc,           \* where the call is
  run,          \* the locals of the call
  calls,        \* the requests the call has made to the generative service
  progress,     \* the messages the call has passed to progress_callback
  \* the components, each exercised on its own
  rank_st,      \* SentenceRanker.get_top_sentences
  dedup_st,     \* ContentDeduplicator
  class_st,     \* IntelligentExtractor._extract_page_content
  kw_st,        \* KeywordExtractor._combine_keywords
  clean_st,     \* AdvancedTextCleaner
  qa_st,        \* QAGenerator.generate_questions
  llm_st        \* LLMSummarizer, its methods exercised on their own

ngvars == <<construction, use_llm, has_llm, cache, results, pc, run, calls,
            progress>>

\* the components added to the state after the first ones
qavars == <<qa_st, llm_st>>
vars == <<construction, use_llm, has_llm, cache, results, pc, run, calls,
          progress, rank_st, dedup_st, class_st, kw_st, clean_st, qa_st,
          llm_st>>

\* the value of a part of the state that a specification does not exercise
Idle == [pc |-> "idle"]

IdleNG ==
  /\ construction = Idle /\ qa_st = Idle /\ llm_st = Idle
  /\ use_llm = FALSE /\ has_llm = FALSE /\ cache = << >> /\ results = << >>
  /\ pc = "idle" /\ run = << >> /\ calls = << >> /\ progress = << >>

(***************************************************************************)
(* SentenceRanker (modules/sentence_ranker.py) and Summarizer              *)
(* (modules/summarizer.py).  The scores come from TF-IDF, cosine           *)
(* similarity and PageRank (scikit-learn, networkx): they are an input     *)
(* here, one natural number per sentence.                                  *)
(***************************************************************************)
\* the most sentences of one input list
MaxSent == 4
\* the highest score of a sentence
MaxScore == 2
\* the highest top_n asked for
MaxTopN == 5

\* top_n=None, told apart from every count top_n >= 0
None == 0 - 1

\* ranked.sort(key=lambda x: x[1], reverse=True) leaves (stable sort) index i
\* after every index with a higher score and every earlier index with the
\* same score: the 1-based place of index i in the ranking
RankPlace(scores, i) ==
  1 + Cardinality({j \in 1..Len(scores) :
                     scores[j] > scores[i] \/ (scores[j] = scores[i] /\ j < i)})

\* SentenceRanker.rank_sentences: the indices, best first
RankSentences(scores) ==
  [p \in 1..Len(scores) |-> CHOOSE i \in 1..Len(scores) : RankPlace(scores, i) = p]

\* top_indices.sort()
SortedIndicesNoSort(indices) == indices
SortedIndices(indices) ==
  [p \in 1..Len(indices) |->
     CHOOSE i \in {indices[k] : k \in 1..Len(indices)} :
       Cardinality({indices[k] : k \in {m \in 1..Len(indices) : indices[m] < i}}) = p - 1]

\* int(len(sentences) * top_percent) for top_percent = 0.3
TopPercentCount(n) == (n * 3) \div 10
\* max(3, ...) when top_n is None
DefaultTopMin == 3

\* the number of ranked entries get_top_sentences takes
EffectiveTopN(n, top_n) ==
  IF top_n = None THEN Max(DefaultTopMin, TopPercentCount(n)) ELSE top_n

\* [idx for idx, score, sent in ranked[:top_n]] for top_n >= 0
TopIndices(ranked, top_n) == SubSeq(ranked, 1, Min(top_n, Len(ranked)))

\* SentenceRanker.get_top_sentences: the 1-based positions of the sentences
\* it returns, in the order it returns them
GetTopSentences(scores, top_n) ==
  IF Len(scores) = 0 THEN << >>
  ELSE SortedIndices(TopIndices(RankSentences(scores),
                                EffectiveTopN(Len(scores), top_n)))

InitRank ==
  /\ IdleNG
  /\ dedup_st = Idle /\ class_st = Idle /\ kw_st = Idle /\ clean_st = Idle
  /\ \E n \in 1..MaxSent :
       \E sc \in [1..n -> 0..MaxScore] :
         \E k \in (0..MaxTopN) \cup {None} :
           rank_st = [pc |-> "called", sentences |-> [i \in 1..n |-> i],
                      scores |-> sc, top_n |-> k,
                      ranked |-> << >>, top_indices |-> << >>, out |-> << >>]

\* ranked = self.rank_sentences(sentences, method)
RankStep ==
  /\ rank_st.pc = "called"
  /\ rank_st' = [rank_st EXCEPT !.pc = "ranked",
                                !.ranked = RankSentences(rank_st.scores)]
  /\ UNCHANGED <<ngvars, qavars, dedup_st, class_st, kw_st, clean_st>>

\* top_indices = [idx for idx, score, sent in ranked[:top_n]]
SelectStep ==
  /\ rank_st.pc = "ranked"
  /\ rank_st' = [rank_st EXCEPT
       !.pc = "selected",
       !.top_indices = TopIndices(rank_st.ranked,
                         EffectiveTopN(Len(rank_st.sentences), rank_st.top_n))]
  /\ UNCHANGED <<ngvars, qavars, dedup_st, class_st, kw_st, clean_st>>

\* top_indices.sort(); return [sentences[i] for i in top_indices]
ReturnStep ==
  /\ rank_st.pc = "selected"
  /\ LET sorted == SortedIndices(rank_st.top_indices)
     IN rank_st' = [rank_st EXCEPT
          !.pc = "returned",
          !.top_indices = sorted,
          !.out = [p \in 1..Len(sorted) |-> rank_st.sentences[sorted[p]]]]
  /\ UNCHANGED <<ngvars, qavars, dedup_st, class_st, kw_st, clean_st>>

NextRank == RankStep \/ SelectStep \/ ReturnStep

SpecRank == InitRank /\ [][NextRank]_vars

\* C5: for a non-empty sentence list and top_n >= 0, get_top_sentences
\* returns exactly min(top_n, len(sentences)) sentences, taken at pairwise
\* distinct positions of the input and listed in increasing input position,
\* whatever the scores are.
C5_TopSentencesSubsequence ==
  (rank_st.pc = "returned" /\ rank_st.top_n # None) =>
    LET idx == rank_st.top_indices
        n == Len(rank_st.sentences)
    IN /\ Len(rank_st.out) = Min(rank_st.top_n, n)
       /\ Len(idx) = Len(rank_st.out)
       /\ \A p \in 1..Len(idx) :
            idx[p] \in 1..n /\ rank_st.out[p] = rank_st.sentences[idx[p]]
       /\ \A p, q \in 1..Len(idx) : p < q => idx[p] < idx[q]

\* a call whose ranking is not the input order: the best two sentences are
\* the last and the first, and both are returned
C5_Witness ==
  /\ rank_st.pc = "returned"
  /\ rank_st.top_n = 2
  /\ Len(rank_st.sentences) >= 3
  /\ rank_st.ranked[1] = Len(rank_st.sentences)
  /\ rank_st.ranked[2] = 1
  /\ rank_st.top_indices = <<1, Len(rank_st.sentences)>>


(***************************************************************************)
(* KeywordExtractor (modules/keyword_extractor.py): the fusion of the      *)
(* per-method keyword lists.  A term is a str.  A score is kept exactly,   *)
(* as a whole number of units of 1 / (100 * 10 * max_rank * max_freq)      *)
(* (the weights are hundredths, a RAKE score is divided by 10, a rank by   *)
(* max_rank, a frequency by max_freq), where the code adds floats: the     *)
(* order of two sums is what matters here.                                 *)
(***************************************************************************)
\* the longest keyword list of one method
MaxKwLen == 2
\* the highest top_n asked of the fusion
MaxKwTopN == 2

\* weights (in hundredths): 'tfidf': 0.35, 'rake': 0.25,
\* 'noun_phrases': 0.20, 'frequency': 0.20
WeightTfidf == 35
WeightRake == 25
WeightNoun == 20
WeightFreq == 20
\* normalized_score = min(score / 10, 1.0)
RakeNorm == 10
\* len(chunk.text.split()) <= 4
MaxChunkWords == 4

KW_data == <<"d","a","t","a">>
KW_heat == <<"h","e","a","t">>
CHUNK_Data == <<"D","a","t","a">>

\* the terms the vectorizer, RAKE and the frequency count yield: lower case
KwTerms == {KW_data, KW_heat}
\* the noun chunks of the parser, as they stand in the text
KwChunks == {CHUNK_Data, KW_heat}
\* the RAKE score of a phrase
RakeScoreOf(term) == IF term = KW_data THEN 20 ELSE 5

\* the sequences over S of length at most n
SeqsUpTo(S, n) == UNION {[1..k -> S] : k \in 0..n}

\* whether a sequence has no element twice
NoRepeat(seq) == \A i, j \in 1..Len(seq) : i # j => seq[i] # seq[j]

\* the first index of each distinct element, in order of first occurrence
FirstIndices(seq) ==
  SelectIn([i \in 1..Len(seq) |-> i],
           {i \in 1..Len(seq) : \A j \in 1..(i - 1) : seq[j] # seq[i]})

\* Counter(items).most_common(n): the distinct items, most frequent first,
\* equally frequent ones in order of first occurrence
MostCommon(items, n) ==
  LET firsts == FirstIndices(items)
      distinct == [k \in 1..Len(firsts) |-> items[firsts[k]]]
      counts == [k \in 1..Len(distinct) |->
                   Cardinality({i \in 1..Len(items) : items[i] = distinct[k]})]
      order == [p \in 1..Len(counts) |->
                  CHOOSE k \in 1..Len(counts) :
                    1 + Cardinality({j \in 1..Len(counts) :
                          counts[j] > counts[k] \/ (counts[j] = counts[k] /\ j < k)}) = p]
      sorted == [p \in 1..Len(order) |-> distinct[order[p]]]
  IN SubSeq(sorted, 1, Min(n, Len(sorted)))

\* chunk.text.lower() for one noun chunk
ChunkTerm(chunk) == Lower(chunk)

\* KeywordExtractor._extract_noun_phrases, given the parser's noun chunks
RECURSIVE ShortChunkTerms(_)
ShortChunkTerms(chunks) ==
  IF chunks = << >> THEN << >>
  ELSE (IF Len(SplitWS(Head(chunks))) <= MaxChunkWords
        THEN <<ChunkTerm(Head(chunks))>> ELSE << >>)
       \o ShortChunkTerms(Tail(chunks))

ExtractNounPhrases(chunks, top_n) == MostCommon(ShortChunkTerms(chunks), top_n)

\* keyword_scores[k] = keyword_scores.get(k, 0) + delta, on a dict kept as
\* the sequence of its items in insertion order
AddScoreAppend(ks, term, delta) == Append(ks, [term |-> term, score |-> delta])
AddScore(ks, term, delta) ==
  IF \E i \in 1..Len(ks) : ks[i].term = term
  THEN [i \in 1..Len(ks) |->
          IF ks[i].term = term THEN [ks[i] EXCEPT !.score = @ + delta] ELSE ks[i]]
  ELSE Append(ks, [term |-> term, score |-> delta])

\* one of the four loops of _combine_keywords: entries is a list of
\* [term, units], the units already weighted
RECURSIVE AddAll(_, _)
AddAll(ks, entries) ==
  IF entries = << >> THEN ks
  ELSE AddAll(AddScore(ks, Head(entries).term, Head(entries).units), Tail(entries))

\* max_freq = results['frequency'][0][1] if results['frequency'] else 1
MaxFreqOf(frequency) == IF frequency = << >> THEN 1 ELSE frequency[1].freq

\* sorted(keyword_scores.items(), key=lambda x: x[1], reverse=True)[:top_n]
SortAndCut(ks, top_n) ==
  LET order == RankSentences([i \in 1..Len(ks) |-> ks[i].score])
      sorted == [p \in 1..Len(ks) |-> ks[order[p]]]
  IN SubSeq(sorted, 1, Min(top_n, Len(sorted)))

\* KeywordExtractor._combine_keywords; has_rake is 'rake' in results and
\* has_noun is 'noun_phrases' in results
CombineKeywords(tfidf, has_rake, rake, has_noun, noun_phrases, frequency, top_n) ==
  LET max_rank == IF has_noun THEN Len(noun_phrases) ELSE 0
      mr == Max(max_rank, 1)
      mf == MaxFreqOf(frequency)
      e_tfidf == [i \in 1..Len(tfidf) |->
                    [term |-> tfidf[i].term,
                     units |-> WeightTfidf * tfidf[i].score * RakeNorm * mr * mf]]
      e_rake == IF ~has_rake THEN << >>
                ELSE [i \in 1..Len(rake) |->
                        [term |-> rake[i].term,
                         units |-> WeightRake * Min(rake[i].score, RakeNorm) * mr * mf]]
      e_noun == IF ~has_noun THEN << >>
                ELSE [i \in 1..Len(noun_phrases) |->
                        [term |-> noun_phrases[i],
                         \* score = (max_rank - rank) / max_rank, rank from 0
                         units |-> WeightNoun * RakeNorm * (max_rank - (i - 1)) * mf]]
      e_freq == [i \in 1..Len(frequency) |->
                   [term |-> frequency[i].term,
                    \* score = freq / max_freq
                    units |-> WeightFreq * RakeNorm * frequency[i].freq * mr]]
      keyword_scores == AddAll(AddAll(AddAll(AddAll(<< >>, e_tfidf), e_rake), e_noun), e_freq)
  IN SortAndCut(keyword_scores, top_n)

\* the lists a method can hand over: distinct lower-case terms with a
\* score (tfidf), phrases with their RAKE score, words with their
\* frequency, most frequent first
TfidfLists ==
  UNION {{[i \in 1..Len(t) |-> [term |-> t[i], score |-> sc[i]]] :
            sc \in [1..Len(t) -> {1, 2}]} :
           t \in {u \in SeqsUpTo(KwTerms, MaxKwLen) : NoRepeat(u)}}
RakeLists ==
  {[i \in 1..Len(t) |-> [term |-> t[i], score |-> RakeScoreOf(t[i])]] :
     t \in SeqsUpTo(KwTerms, MaxKwLen)}
FreqLists ==
  UNION {{f \in {[i \in 1..Len(t) |-> [term |-> t[i], freq |-> fr[i]]] :
                   fr \in [1..Len(t) -> {1, 2}]} :
            \A i \in 1..(Len(f) - 1) : f[i].freq >= f[i + 1].freq} :
           t \in {u \in SeqsUpTo(KwTerms, MaxKwLen) : NoRepeat(u)}}

InitKw ==
  /\ IdleNG
  /\ rank_st = Idle /\ dedup_st = Idle /\ class_st = Idle /\ clean_st = Idle
  /\ \E tf \in TfidfLists, fq \in FreqLists, k \in 0..MaxKwTopN :
       \E rk \in RakeLists, ch \in SeqsUpTo(KwChunks, MaxKwLen) :
         \E rake_available, spacy_available \in BOOLEAN :
           /\ (~rake_available => rk = << >>)
           /\ (~spacy_available => ch = << >>)
           /\ kw_st = [pc |-> "called", tfidf |-> tf,
                       rake_available |-> rake_available, rake |-> rk,
                       spacy_available |-> spacy_available, chunks |-> ch,
                       frequency |-> fq, top_n |-> k,
                       noun_phrases |-> << >>, combined |-> << >>]

\* if SPACY_AVAILABLE and nlp: results['noun_phrases'] = ...
NounPhraseStep ==
  /\ kw_st.pc = "called"
  /\ kw_st' = [kw_st EXCEPT
       !.pc = "methods_done",
       !.noun_phrases = IF kw_st.spacy_available
                        THEN ExtractNounPhrases(kw_st.chunks, kw_st.top_n)
                        ELSE << >>]
  /\ UNCHANGED <<ngvars, qavars, rank_st, dedup_st, class_st, clean_st>>

\* combined = self._combine_keywords(results, top_n)
CombineStep ==
  /\ kw_st.pc = "methods_done"
  /\ kw_st' = [kw_st EXCEPT
       !.pc = "combined",
       !.combined = CombineKeywords(kw_st.tfidf, kw_st.rake_available, kw_st.rake,
                                    kw_st.spacy_available, kw_st.noun_phrases,
                                    kw_st.frequency, kw_st.top_n)]
  /\ UNCHANGED <<ngvars, qavars, rank_st, dedup_st, class_st, clean_st>>

NextKw == NounPhraseStep \/ CombineStep

SpecKw == InitKw /\ [][NextKw]_vars

\* C8: the combined keyword list has at most top_n entries, is sorted by
\* combined score in descending order, and holds no two terms that are
\* equal after case-insensitive normalization.
C8_FusionBound ==
  kw_st.pc = "combined" =>
    LET c == kw_st.combined
    IN /\ Len(c) <= kw_st.top_n
       /\ \A i \in 1..(Len(c) - 1) : c[i].score >= c[i + 1].score
       /\ \A i, j \in 1..Len(c) : i # j => Lower(c[i].term) # Lower(c[j].term)

\* a fusion in which a term comes from two methods, one of them the noun
\* chunk "Data" lower-cased, and in which top_n cuts the list
C8_Witness ==
  /\ kw_st.pc = "combined"
  /\ kw_st.spacy_available /\ kw_st.rake_available
  /\ \E i \in 1..Len(kw_st.chunks) : kw_st.chunks[i] = CHUNK_Data
  /\ \E i \in 1..Len(kw_st.tfidf) : kw_st.tfidf[i].term = KW_data
  /\ \E i \in 1..Len(kw_st.frequency) : kw_st.frequency[i].term = KW_heat
  /\ kw_st.top_n = 1
  /\ Len(kw_st.combined) = 1


(***************************************************************************)
(* ContentDeduplicator (modules/deduplicator.py).                          *)
(*                                                                         *)
(* SequenceMatcher(None, a, b).ratio() is computed as difflib computes it  *)
(* for strings shorter than 200 characters (no junk, no popular-element    *)
(* heuristic): the longest common block, earliest in a and then in b,      *)
(* then the same to its left and to its right; ratio = 2 * M / T with M    *)
(* the number of matched characters and T the two lengths together.        *)
(***************************************************************************)
\* similarity_threshold = 0.85 = ThresholdNum / ThresholdDen
ThresholdNum == 17
ThresholdDen == 20
\* len(text.strip()) < 10
MinTextLen == 10

fillers ==
  {<<"t","h","e">>,
   <<"a">>,
   <<"a","n">>,
   <<"a","n","d">>,
   <<"o","r">>,
   <<"b","u","t">>,
   <<"i","n">>,
   <<"o","n">>,
   <<"a","t">>,
   <<"t","o">>,
   <<"f","o","r">>}

\* re.sub(r'\s+', ' ', text): every run of whitespace becomes one space;
\* the two halves of the text are done apart, and a run that goes over the
\* middle gives one space, not two
RECURSIVE CollapseWS(_)
CollapseWS(s) ==
  IF s = << >> THEN << >>
  ELSE IF Len(s) = 1 THEN (IF IsSpace(s[1]) THEN <<" ">> ELSE s)
  ELSE LET h == Len(s) \div 2
           right == CollapseWS(SubSeq(s, h + 1, Len(s)))
       IN CollapseWS(SubSeq(s, 1, h))
          \o (IF IsSpace(s[h]) /\ IsSpace(s[h + 1]) THEN Tail(right)
              ELSE right)

\* re.sub(r'[^\w\s.]', '', text)
RemovePunct(s) == SelectIn(s, WordChars \cup SpaceChars \cup {"."})

\* ContentDeduplicator._normalize_text
NormalizeText(text) ==
  LET words == SplitWS(RemovePunct(CollapseWS(Lower(text))))
  IN Join(SelectIn(words, {w \in {words[i] : i \in 1..Len(words)} :
                            w \notin fillers}), <<" ">>)

\* the length of the common run of a[i:ahi] and b[j:bhi] from their starts
RECURSIVE RunLen(_, _, _, _, _, _)
RunLen(a, b, i, j, ahi, bhi) ==
  IF i < ahi /\ j < bhi /\ a[i + 1] = b[j + 1]
  THEN 1 + RunLen(a, b, i + 1, j + 1, ahi, bhi)
  ELSE 0

\* SequenceMatcher.find_longest_match(alo, ahi, blo, bhi): <<i, j, k>>
FindLongestMatch(a, b, alo, ahi, blo, bhi) ==
  LET starts == {p \in (alo..(ahi - 1)) \X (blo..(bhi - 1)) :
                   a[p[1] + 1] = b[p[2] + 1]}
      len == [p \in starts |-> RunLen(a, b, p[1], p[2], ahi, bhi)]
      best == CHOOSE p \in starts :
                \A q \in starts :
                   \/ len[p] > len[q]
                   \/ /\ len[p] = len[q]
                      /\ \/ p[1] < q[1]
                         \/ p[1] = q[1] /\ p[2] <= q[2]
  IN IF starts = {} THEN <<alo, blo, 0>> ELSE <<best[1], best[2], len[best]>>

\* the characters in the blocks of SequenceMatcher.get_matching_blocks
RECURSIVE Matches(_, _, _, _, _, _)
Matches(a, b, alo, ahi, blo, bhi) ==
  LET m == FindLongestMatch(a, b, alo, ahi, blo, bhi)
      i == m[1]
      j == m[2]
      k == m[3]
  IN IF k = 0 THEN 0
     ELSE k + (IF alo < i /\ blo < j
               THEN Matches(a, b, alo, i, blo, j) ELSE 0)
            + (IF i + k < ahi /\ j + k < bhi
               THEN Matches(a, b, i + k, ahi, j + k, bhi) ELSE 0)

\* SequenceMatcher(None, a, b).ratio() as the fraction num / den;
\* difflib returns 1.0 when both strings are empty
Ratio(a, b) ==
  IF Len(a) + Len(b) = 0 THEN [num |-> 1, den |-> 1]
  ELSE [num |-> 2 * Matches(a, b, 0, Len(a), 0, Len(b)),
        den |-> Len(a) + Len(b)]

\* ContentDeduplicator.calculate_similarity
CalculateSimilarity(text1, text2) ==
  Ratio(NormalizeText(text1), NormalizeText(text2))

\* similarity >= self.similarity_threshold
AtLeastThreshold(r) == r.num * ThresholdDen >= ThresholdNum * r.den

\* not text or len(text.strip()) < 10
TooShort(text) == text = << >> \/ Len(Strip(text)) < MinTextLen

\* the scan of deduplicate_list over unique_texts, only the last kept
\* text compared
IsDupOfLastKept(text, unique_texts) ==
  /\ unique_texts # << >>
  /\ AtLeastThreshold(
       CalculateSimilarity(text, unique_texts[Len(unique_texts)]))

\* the scan of deduplicate_list over unique_texts: is_dup
IsDupOfKept(text, unique_texts) ==
  \E k \in 1..Len(unique_texts) :
     AtLeastThreshold(CalculateSimilarity(text, unique_texts[k]))

\* 'The cat sat on the mat.'
TXT_cat ==
  <<"T","h","e"," ","c","a","t"," ","s","a","t"," ","o","n"," ","t","h","e",
    " ","m","a","t",".">>
\* 'The cat sat on the mat!'
TXT_cat_bang ==
  <<"T","h","e"," ","c","a","t"," ","s","a","t"," ","o","n"," ","t","h","e",
    " ","m","a","t","!">>
\* 'A cat sat on a mat.'
TXT_a_cat ==
  <<"A"," ","c","a","t"," ","s","a","t"," ","o","n"," ","a"," ","m","a","t",
    ".">>
\* 'The cat sat on the rug.'
TXT_rug ==
  <<"T","h","e"," ","c","a","t"," ","s","a","t"," ","o","n"," ","t","h","e",
    " ","r","u","g",".">>
\* '  Too short  '
TXT_short ==
  <<" "," ","T","o","o"," ","s","h","o","r","t"," "," ">>
\* 'The cat sat on the mat today'
TXT_today ==
  <<"T","h","e"," ","c","a","t"," ","s","a","t"," ","o","n"," ","t","h","e",
    " ","m","a","t"," ","t","o","d","a","y">>
\* 'The cat sat on the mat today again'
TXT_today_again ==
  <<"T","h","e"," ","c","a","t"," ","s","a","t"," ","o","n"," ","t","h","e",
    " ","m","a","t"," ","t","o","d","a","y"," ","a","g","a","i","n">>
\* 'The cat sat on the mat today again ok'
TXT_today_again_ok ==
  <<"T","h","e"," ","c","a","t"," ","s","a","t"," ","o","n"," ","t","h","e",
    " ","m","a","t"," ","t","o","d","a","y"," ","a","g","a","i","n"," ","o",
    "k">>

DedupTexts ==
  {TXT_cat, TXT_cat_bang, TXT_a_cat, TXT_rug,
   TXT_short, TXT_today, TXT_today_again, TXT_today_again_ok}

\* the longest list handed to deduplicate_list
MaxTexts == 3

\* the call deduplicate_list(texts), before its loop
InitDedup ==
  /\ IdleNG
  /\ rank_st = Idle /\ class_st = Idle /\ kw_st = Idle /\ clean_st = Idle
  /\ \E n \in 1..MaxTexts : \E texts \in [1..n -> DedupTexts] :
        dedup_st = [pc |-> "loop", texts |-> texts, i |-> 1,
                    unique_texts |-> << >>, seen_normalized |-> {}]

DedupOthersUnchanged ==
  UNCHANGED <<ngvars, qavars, rank_st, class_st, kw_st, clean_st>>

\* one pass of the loop for a text that is empty or too short
DedupSkipShort ==
  /\ dedup_st.pc = "loop" /\ dedup_st.i <= Len(dedup_st.texts)
  /\ TooShort(dedup_st.texts[dedup_st.i])
  /\ dedup_st' = [dedup_st EXCEPT !.i = @ + 1]
  /\ DedupOthersUnchanged

\* one pass of the loop for a text whose normal form was seen
DedupSkipExact ==
  /\ dedup_st.pc = "loop" /\ dedup_st.i <= Len(dedup_st.texts)
  /\ LET text == dedup_st.texts[dedup_st.i]
     IN /\ ~TooShort(text)
        /\ NormalizeText(text) \in dedup_st.seen_normalized
  /\ dedup_st' = [dedup_st EXCEPT !.i = @ + 1]
  /\ DedupOthersUnchanged

\* one pass of the loop for a text similar to a kept one
DedupSkipSimilar ==
  /\ dedup_st.pc = "loop" /\ dedup_st.i <= Len(dedup_st.texts)
  /\ LET text == dedup_st.texts[dedup_st.i]
     IN /\ ~TooShort(text)
        /\ NormalizeText(text) \notin dedup_st.seen_normalized
        /\ IsDupOfKept(text, dedup_st.unique_texts)
  /\ dedup_st' = [dedup_st EXCEPT !.i = @ + 1]
  /\ DedupOthersUnchanged

\* one pass of the loop for a text that is kept
DedupKeep ==
  /\ dedup_st.pc = "loop" /\ dedup_st.i <= Len(dedup_st.texts)
  /\ LET text == dedup_st.texts[dedup_st.i]
     IN /\ ~TooShort(text)
        /\ NormalizeText(text) \notin dedup_st.seen_normalized
        /\ ~IsDupOfKept(text, dedup_st.unique_texts)
        /\ dedup_st' = [dedup_st EXCEPT
              !.i = @ + 1,
              !.unique_texts = Append(@, text),
              !.seen_normalized = @ \cup {NormalizeText(text)}]
  /\ DedupOthersUnchanged

\* return unique_texts
DedupReturn ==
  /\ dedup_st.pc = "loop" /\ dedup_st.i > Len(dedup_st.texts)
  /\ dedup_st' = [dedup_st EXCEPT !.pc = "done"]
  /\ DedupOthersUnchanged

NextDedup ==
  \/ DedupSkipShort
  \/ DedupSkipExact
  \/ DedupSkipSimilar
  \/ DedupKeep
  \/ DedupReturn

SpecDedup == InitDedup /\ [][NextDedup]_vars

\* the positions among the first n of texts that the contract keeps: long
\* enough, and not similar to the text at any earlier kept position
RECURSIVE C6_KeptPositions(_, _)
C6_KeptPositions(texts, n) ==
  IF n = 0 THEN {}
  ELSE LET before == C6_KeptPositions(texts, n - 1)
       IN IF /\ Len(Strip(texts[n])) >= MinTextLen
             /\ \A k \in before :
                   ~AtLeastThreshold(CalculateSimilarity(texts[n], texts[k]))
          THEN before \cup {n}
          ELSE before

\* the texts at a set of positions, in order
RECURSIVE C6_TextsAt(_, _, _)
C6_TextsAt(texts, n, keep) ==
  IF n = 0 THEN << >>
  ELSE C6_TextsAt(texts, n - 1, keep)
       \o (IF n \in keep THEN <<texts[n]>> ELSE << >>)

SeenKeptAsItWas(seen_content, text, dup) == seen_content

\* a deduplicate_list that puts each kept text in front of the kept ones
RECURSIVE DedupFromNewestFirst(_, _, _, _)
DedupFromNewestFirst(texts, i, unique_texts, seen_normalized) ==
  IF i > Len(texts) THEN unique_texts
  ELSE LET text == texts[i]
       IN IF \/ TooShort(text)
             \/ NormalizeText(text) \in seen_normalized
             \/ IsDupOfKept(text, unique_texts)
          THEN DedupFromNewestFirst(texts, i + 1, unique_texts, seen_normalized)
          ELSE DedupFromNewestFirst(texts, i + 1, <<text>> \o unique_texts,
                                    seen_normalized \cup {NormalizeText(text)})

\* ContentDeduplicator.deduplicate_list as a function of its argument
RECURSIVE DedupFrom(_, _, _, _)
DedupFrom(texts, i, unique_texts, seen_normalized) ==
  IF i > Len(texts) THEN unique_texts
  ELSE LET text == texts[i]
       IN IF \/ TooShort(text)
             \/ NormalizeText(text) \in seen_normalized
             \/ IsDupOfKept(text, unique_texts)
          THEN DedupFrom(texts, i + 1, unique_texts, seen_normalized)
          ELSE DedupFrom(texts, i + 1, Append(unique_texts, text),
                         seen_normalized \cup {NormalizeText(text)})

DeduplicateList(texts) == DedupFrom(texts, 1, << >>, {})

\* len(s.strip()) > 20 in _split_into_sentences, len(sent) < 20 in the loop
MinSentenceLen == 20
\* definitions[:5], concepts[:5], procedures[:5]
MaxPerCategory == 5
\* general_points[:10]
MaxGeneralPoints == 10
\* word_count < 5 or word_count > 50
MinWords == 5
MaxWords == 50
\* len(re.findall(r'\d', sent)) / max(len(sent), 1) > 0.4 = DigitNum / DigitDen
DigitNum == 2
DigitDen == 5

\* re.split(r'[.!?]+', text)
RECURSIVE SplitRuns(_, _)
SplitRuns(s, seps) ==
  LET hits == {i \in 1..Len(s) :
                 s[i] \in seps /\ (i = 1 \/ s[i - 1] \notin seps)}
      far(i) == IF 2 * i >= Len(s) THEN 2 * i - Len(s) ELSE Len(s) - 2 * i
  IN IF hits = {} THEN <<s>>
     ELSE LET i == CHOOSE k \in hits : \A j \in hits :
                     far(k) < far(j) \/ (far(k) = far(j) /\ k <= j)
          IN SplitRuns(SubSeq(s, 1, i - 1), seps)
             \o SplitRuns(LStripChars(SubSeq(s, i, Len(s)), seps), seps)

\* [s.strip() for s in sentences if len(s.strip()) > 20]
RECURSIVE StripLong(_)
StripLong(pieces) ==
  IF pieces = << >> THEN << >>
  ELSE (IF Len(Strip(Head(pieces))) > MinSentenceLen
        THEN <<Strip(Head(pieces))>> ELSE << >>)
       \o StripLong(Tail(pieces))

\* IntelligentExtractor._split_into_sentences
SplitIntoSentences(text) == StripLong(SplitRuns(text, {".", "!", "?"}))

\* re.search(r'\bw\b', s) for a w that begins and ends with a letter
HasWord(s, w) ==
  \E i \in 0..(Len(s) - Len(w)) :
     /\ SubSeq(s, i + 1, i + Len(w)) = w
     /\ (i = 0 \/ ~IsWordChar(s[i]))
     /\ (i + Len(w) = Len(s) \/ ~IsWordChar(s[i + Len(w) + 1]))

\* any(re.search(r'\b(...)\b', sent, re.IGNORECASE)) over the alternatives
HasAnyWord(sent, words) == \E w \in words : HasWord(Lower(sent), w)

\* the alternatives of the \b(...)\b patterns of definition_patterns
definition_words ==
  {<<"i","s">>,
   <<"a","r","e">>,
   <<"r","e","f","e","r"," ","t","o">>,
   <<"r","e","f","e","r","s"," ","t","o">>,
   <<"m","e","a","n">>,
   <<"m","e","a","n","s">>,
   <<"d","e","f","i","n","e","d"," ","a","s">>,
   <<"k","n","o","w","n"," ","a","s">>,
   <<"d","e","f","i","n","i","t","i","o","n">>,
   <<"d","e","f","i","n","e","d">>,
   <<"c","a","l","l","e","d">>,
   <<"t","e","r","m","e","d">>}

\* the alternatives of the \b(...)\b patterns of procedure_indicators
procedure_words ==
  {<<"s","t","e","p">>,
   <<"f","i","r","s","t">>,
   <<"s","e","c","o","n","d">>,
   <<"t","h","e","n">>,
   <<"n","e","x","t">>,
   <<"f","i","n","a","l","l","y">>,
   <<"p","r","o","c","e","d","u","r","e">>,
   <<"m","e","t","h","o","d">>,
   <<"p","r","o","c","e","s","s">>,
   <<"t","e","c","h","n","i","q","u","e">>,
   <<"s","h","o","u","l","d">>,
   <<"m","u","s","t">>,
   <<"n","e","e","d"," ","t","o">>,
   <<"h","a","v","e"," ","t","o">>}

\* the alternatives of the \b(...)\b patterns of concept_indicators
concept_words ==
  {<<"p","r","i","n","c","i","p","l","e">>,
   <<"t","h","e","o","r","y">>,
   <<"c","o","n","c","e","p","t">>,
   <<"i","d","e","a">>,
   <<"a","p","p","r","o","a","c","h">>,
   <<"b","e","c","a","u","s","e">>,
   <<"t","h","e","r","e","f","o","r","e">>,
   <<"t","h","u","s">>,
   <<"h","e","n","c","e">>,
   <<"s","i","n","c","e">>,
   <<"a","l","l","o","w">>,
   <<"a","l","l","o","w","s">>,
   <<"e","n","a","b","l","e">>,
   <<"e","n","a","b","l","e","s">>,
   <<"p","r","o","v","i","d","e">>,
   <<"p","r","o","v","i","d","e","s">>,
   <<"e","n","s","u","r","e">>,
   <<"e","n","s","u","r","e","s">>,
   <<"a","d","v","a","n","t","a","g","e">>,
   <<"b","e","n","e","f","i","t">>,
   <<"i","m","p","o","r","t","a","n","c","e">>,
   <<"s","i","g","n","i","f","i","c","a","n","c","e">>}

\* noise_patterns in _is_important
noise_patterns ==
  {<<"d","e","p","t",".">>,
   <<"s","i","g","n","a","t","u","r","e">>,
   <<"m","a","r","k","s"," ","o","b","t","a","i","n","e","d">>,
   <<"s","l",".","n","o">>,
   <<"c","r","i","t","e","r","i","a">>,
   <<"p","a","g","e"," ","n","u","m","b","e","r">>,
   <<"c","o","p","y","r","i","g","h","t">>,
   <<"a","l","l"," ","r","i","g","h","t","s"," ","r","e","s","e","r","v",
     "e","d">>,
   <<"t","a","b","l","e">>,
   <<"f","i","g","u","r","e">>}

\* re.search(r'^[A-Z][a-z]+:', sent, re.IGNORECASE)
StartsWithTerm(sent) ==
  \E n \in 2..(Len(sent) - 1) :
     /\ \A i \in 1..n : IsLower(LowerChar(sent[i]))
     /\ sent[n + 1] = ":"

\* re.search(r'^\d+\.', sent)
StartsWithNumber(sent) ==
  \E n \in 1..(Len(sent) - 1) :
     /\ \A i \in 1..n : IsDigit(sent[i])
     /\ sent[n + 1] = "."

\* IntelligentExtractor._is_definition
IsDefinition(sent) ==
  HasAnyWord(sent, definition_words) \/ StartsWithTerm(sent)

\* IntelligentExtractor._is_procedure
IsProcedure(sent) ==
  StartsWithNumber(sent) \/ HasAnyWord(sent, procedure_words)

\* IntelligentExtractor._is_concept
IsConcept(sent) == HasAnyWord(sent, concept_words)

\* IntelligentExtractor._is_important
IsImportant(sent) ==
  LET digits == Cardinality({i \in 1..Len(sent) : IsDigit(sent[i])})
      word_count == Len(SplitWS(sent))
  IN /\ \A p \in noise_patterns : ~Contains(Lower(sent), p)
     /\ ~(digits * DigitDen > DigitNum * Max(Len(sent), 1))
     /\ ~(word_count < MinWords \/ word_count > MaxWords)

\* the if/elif chain of _extract_page_content, the concept test first
CategoryConceptFirst(sent) ==
  IF Len(sent) < MinSentenceLen THEN "none"
  ELSE IF IsConcept(sent) THEN "concept"
  ELSE IF IsDefinition(sent) THEN "definition"
  ELSE IF IsProcedure(sent) THEN "procedure"
  ELSE IF IsImportant(sent) THEN "content"
  ELSE "none"

\* the if/elif chain of _extract_page_content: the list sent is appended to
Category(sent) ==
  IF Len(sent) < MinSentenceLen THEN "none"
  ELSE IF IsDefinition(sent) THEN "definition"
  ELSE IF IsProcedure(sent) THEN "procedure"
  ELSE IF IsConcept(sent) THEN "concept"
  ELSE IF IsImportant(sent) THEN "content"
  ELSE "none"

\* the points of one category with no limit on their number
PointsOfUncapped(items, cap, page_num, type) ==
  [i \in 1..Len(items) |->
     [text |-> items[i], page |-> page_num, type |-> type]]

\* the points of one category: {'text', 'page', 'type'} for items[:cap]
PointsOf(items, cap, page_num, type) ==
  [i \in 1..Min(cap, Len(items)) |->
     [text |-> items[i], page |-> page_num, type |-> type]]

\* 'The first principle is called induction'
SENT_def_first ==
  <<"T","h","e"," ","f","i","r","s","t"," ","p","r","i","n","c","i","p","l",
    "e"," ","i","s"," ","c","a","l","l","e","d"," ","i","n","d","u","c","t",
    "i","o","n">>
\* 'Osmosis: water moving across a membrane'
SENT_term ==
  <<"O","s","m","o","s","i","s",":"," ","w","a","t","e","r"," ","m","o","v",
    "i","n","g"," ","a","c","r","o","s","s"," ","a"," ","m","e","m","b","r",
    "a","n","e">>
\* 'Then heat the mixture because it must boil'
SENT_proc ==
  <<"T","h","e","n"," ","h","e","a","t"," ","t","h","e"," ","m","i","x","t",
    "u","r","e"," ","b","e","c","a","u","s","e"," ","i","t"," ","m","u","s",
    "t"," ","b","o","i","l">>
\* 'Caching enables faster repeated lookups'
SENT_concept ==
  <<"C","a","c","h","i","n","g"," ","e","n","a","b","l","e","s"," ","f","a",
    "s","t","e","r"," ","r","e","p","e","a","t","e","d"," ","l","o","o","k",
    "u","p","s">>
\* 'This plant absorbs light through leaves'
SENT_content ==
  <<"T","h","i","s"," ","p","l","a","n","t"," ","a","b","s","o","r","b","s",
    " ","l","i","g","h","t"," ","t","h","r","o","u","g","h"," ","l","e","a",
    "v","e","s">>
\* 'Chlorophyll absorbs sunlight quickly'
SENT_few_words ==
  <<"C","h","l","o","r","o","p","h","y","l","l"," ","a","b","s","o","r","b",
    "s"," ","s","u","n","l","i","g","h","t"," ","q","u","i","c","k","l","y">>
\* 'See the figure on the following page'
SENT_noise ==
  <<"S","e","e"," ","t","h","e"," ","f","i","g","u","r","e"," ","o","n"," ",
    "t","h","e"," ","f","o","l","l","o","w","i","n","g"," ","p","a","g","e">>
\* '1234 5678 9012 3456 7890 now'
SENT_digits ==
  <<"1","2","3","4"," ","5","6","7","8"," ","9","0","1","2"," ","3","4","5",
    "6"," ","7","8","9","0"," ","n","o","w">>
\* 'Too short here'
SENT_short ==
  <<"T","o","o"," ","s","h","o","r","t"," ","h","e","r","e">>

ClassSentences ==
  {SENT_def_first, SENT_term, SENT_proc, SENT_concept,
   SENT_content, SENT_few_words, SENT_noise, SENT_digits, SENT_short}

\* the most sentences on a page
MaxPageSentences == 3

\* the text of a page made of the given sentences
RECURSIVE PageOf(_)
PageOf(sents) ==
  IF sents = << >> THEN << >>
  ELSE Head(sents) \o <<".">>
       \o (IF Len(sents) > 1 THEN <<" ">> ELSE << >>) \o PageOf(Tail(sents))

\* the call _extract_page_content(text, page_num), before it splits text
InitClassify ==
  /\ IdleNG
  /\ rank_st = Idle /\ dedup_st = Idle /\ kw_st = Idle /\ clean_st = Idle
  /\ \E n \in 1..MaxPageSentences : \E sents \in [1..n -> ClassSentences] :
        class_st = [pc |-> "split", text |-> PageOf(sents), page_num |-> 1,
                    sentences |-> << >>, i |-> 1,
                    definitions |-> << >>, procedures |-> << >>,
                    concepts |-> << >>, general_points |-> << >>,
                    points |-> << >>]

ClassOthersUnchanged ==
  UNCHANGED <<ngvars, qavars, rank_st, dedup_st, kw_st, clean_st>>

\* sentences = self._split_into_sentences(text)
ClassSplit ==
  /\ class_st.pc = "split"
  /\ class_st' = [class_st EXCEPT
        !.pc = "loop", !.sentences = SplitIntoSentences(class_st.text)]
  /\ ClassOthersUnchanged

\* the sentence the loop is at, stripped
ClassSent == Strip(class_st.sentences[class_st.i])

ClassAt(category) ==
  /\ class_st.pc = "loop" /\ class_st.i <= Len(class_st.sentences)
  /\ Category(ClassSent) = category

\* one pass of the loop: definitions.append(sent)
ClassDefinition ==
  /\ ClassAt("definition")
  /\ class_st' = [class_st EXCEPT
        !.i = @ + 1, !.definitions = Append(@, ClassSent)]
  /\ ClassOthersUnchanged

\* one pass of the loop: procedures.append(sent)
ClassProcedure ==
  /\ ClassAt("procedure")
  /\ class_st' = [class_st EXCEPT
        !.i = @ + 1, !.procedures = Append(@, ClassSent)]
  /\ ClassOthersUnchanged

\* one pass of the loop: concepts.append(sent)
ClassConcept ==
  /\ ClassAt("concept")
  /\ class_st' = [class_st EXCEPT
        !.i = @ + 1, !.concepts = Append(@, ClassSent)]
  /\ ClassOthersUnchanged

\* one pass of the loop: general_points.append(sent)
ClassContent ==
  /\ ClassAt("content")
  /\ class_st' = [class_st EXCEPT
        !.i = @ + 1, !.general_points = Append(@, ClassSent)]
  /\ ClassOthersUnchanged

\* one pass of the loop: no list takes the sentence
ClassDrop ==
  /\ ClassAt("none")
  /\ class_st' = [class_st EXCEPT !.i = @ + 1]
  /\ ClassOthersUnchanged

\* after the loop: deduplicate each list, compile the points, return
ClassCompile ==
  /\ class_st.pc = "loop" /\ class_st.i > Len(class_st.sentences)
  /\ LET definitions == DeduplicateList(class_st.definitions)
         procedures == DeduplicateList(class_st.procedures)
         concepts == DeduplicateList(class_st.concepts)
         general_points == DeduplicateList(class_st.general_points)
         p == class_st.page_num
     IN class_st' = [class_st EXCEPT
          !.pc = "done",
          !.definitions = definitions,
          !.procedures = procedures,
          !.concepts = concepts,
          !.general_points = general_points,
          !.points = PointsOf(definitions, MaxPerCategory, p, "definition")
                     \o PointsOf(concepts, MaxPerCategory, p, "concept")
                     \o PointsOf(procedures, MaxPerCategory, p, "procedure")
                     \o PointsOf(general_points, MaxGeneralPoints, p, "content")]
  /\ ClassOthersUnchanged

NextClassify ==
  \/ ClassSplit
  \/ ClassDefinition
  \/ ClassProcedure
  \/ ClassConcept
  \/ ClassContent
  \/ ClassDrop
  \/ ClassCompile

SpecClassify == InitClassify /\ [][NextClassify]_vars

\* the first category whose predicate holds, in the order of the claim
C7_FirstMatch(sent) ==
  CASE IsDefinition(sent) -> "definition"
    [] ~IsDefinition(sent) /\ IsProcedure(sent) -> "procedure"
    [] ~IsDefinition(sent) /\ ~IsProcedure(sent) /\ IsConcept(sent) -> "concept"
    [] ~IsDefinition(sent) /\ ~IsProcedure(sent) /\ ~IsConcept(sent)
       /\ IsImportant(sent) -> "content"
    [] OTHER -> "none"

\* C7: for every sentence of a page the classifier produces at most one
\* content point, and the point's category is the first whose predicate
\* holds in the order definition, procedure, concept, content (content only
\* if the importance filter passes); a sentence matching none has no point.
C7_FirstMatchOnly ==
  class_st.pc = "done" =>
    LET sentences == class_st.sentences
        points == class_st.points
    IN /\ \A k \in 1..Len(sentences) :
            /\ Cardinality({q \in 1..Len(points) :
                  points[q].text = sentences[k]}) <= 1
            /\ \A q \in 1..Len(points) :
                  points[q].text = sentences[k] =>
                     points[q].type = C7_FirstMatch(sentences[k])
            /\ C7_FirstMatch(sentences[k]) = "none" =>
                  \A q \in 1..Len(points) : points[q].text # sentences[k]
       /\ \A q \in 1..Len(points) :
            \E k \in 1..Len(sentences) : points[q].text = sentences[k]

\* a page with a sentence matching three categories that became one
\* definition point, a sentence matching procedure and concept that became
\* a procedure point, and a sentence matching none that was dropped
C7_Witness ==
  /\ class_st.pc = "done"
  /\ class_st.sentences = <<SENT_def_first, SENT_proc, SENT_noise>>
  /\ IsDefinition(SENT_def_first) /\ IsProcedure(SENT_def_first)
  /\ IsConcept(SENT_def_first)
  /\ IsProcedure(SENT_proc) /\ IsConcept(SENT_proc)
  /\ class_st.points =
       <<[text |-> SENT_def_first, page |-> 1, type |-> "definition"],
         [text |-> SENT_proc, page |-> 1, type |-> "procedure"]>>


(***************************************************************************)
(* AdvancedTextCleaner (modules/advanced_cleaner.py).                      *)
(*                                                                         *)
(* re.sub(pattern, repl, text) scans text from the left: where the pattern *)
(* matches, the replacement is written and the scan goes on after the      *)
(* match; elsewhere the character is copied.  Each pattern of the code is  *)
(* an operator giving, for a position, the length of the match there       *)
(* (0: no match) and its replacement.                                      *)
(***************************************************************************)
\* (in|at|on|ed|er|ly|en)
ocr_suffixes ==
  {<<"i","n">>,
   <<"a","t">>,
   <<"o","n">>,
   <<"e","d">>,
   <<"e","r">>,
   <<"l","y">>,
   <<"e","n">>}
\* common_preps
common_preps ==
  <<<<"o","f">>,
    <<"t","o">>,
    <<"i","n">>,
    <<"o","n">>,
    <<"a","t">>,
    <<"b","y">>,
    <<"f","o","r">>,
    <<"f","r","o","m">>,
    <<"w","i","t","h">>,
    <<"t","h","e">>,
    <<"a","n","d">>>>
W_at == <<"a","t">>
W_ion == <<"i","o","n">>
W_on == <<"o","n">>
W_in == <<"i","n">>
W_for == <<"f","o","r">>
W_to == <<"t","o">>
W_con == <<"c","o","n">>
W_inform == <<"i","n","f","o","r","m">>
W_tor == <<"t","o","r">>
W_ation == <<"a","t","i","o","n">>
W_ons == <<"o","n","s">>
W_http == <<"h","t","t","p">>
W_colon_slashes == <<":","/","/">>
W_www_dot == <<"w","w","w",".">>
W_image == <<"i","m","a","g","e">>
W_source == <<"s","o","u","r","c","e">>
W_courtesy == <<"c","o","u","r","t","e","s","y">>
W_table == <<"t","a","b","l","e">>

NoMatch == [len |-> 0, repl |-> << >>]

\* the literal w at position i (0-based) of s
LitAt(s, i, w) ==
  i + Len(w) <= Len(s) /\ SubSeq(s, i + 1, i + Len(w)) = w

\* the literal w at position i of s under re.IGNORECASE
LitAtI(s, i, w) ==
  i + Len(w) <= Len(s) /\ Lower(SubSeq(s, i + 1, i + Len(w))) = w

\* where the greedy run of characters of the set chars beginning at i ends
RunEnd(s, i, chars) ==
  CHOOSE e \in i..Len(s) :
     /\ \A k \in (i + 1)..e : s[k] \in chars
     /\ (e = Len(s) \/ s[e + 1] \notin chars)

\* where the greedy run of characters outside chars beginning at i ends
RunEndNot(s, i, chars) ==
  CHOOSE e \in i..Len(s) :
     /\ \A k \in (i + 1)..e : s[k] \notin chars
     /\ (e = Len(s) \/ s[e + 1] \in chars)

\* \b at position i
Boundary(s, i) ==
  (i > 0 /\ IsWordChar(s[i])) # (i < Len(s) /\ IsWordChar(s[i + 1]))

\* \b(\w+)\s+ at i: <<end of the word, end of the whitespace>>, or << >>
WordThenSpace(s, i) ==
  IF i < Len(s) /\ IsWordChar(s[i + 1]) /\ Boundary(s, i)
  THEN LET e1 == RunEnd(s, i, WordChars)
           e2 == RunEnd(s, e1, SpaceChars)
       IN IF e2 > e1 THEN <<e1, e2>> ELSE << >>
  ELSE << >>

\* mid\s+last\b at position i, given the two literals: the end, or -1
MidSpaceLast(s, i, mid, last) ==
  IF LitAt(s, i, mid)
  THEN LET e3 == i + Len(mid)
           e4 == RunEnd(s, e3, SpaceChars)
       IN IF e4 > e3 /\ LitAt(s, e4, last) /\ Boundary(s, e4 + Len(last))
          THEN e4 + Len(last) ELSE -1
  ELSE -1

\* r'\b(\w+)\s+(in|at|on|ed|er|ly|en)\s+g\b' -> r'\1\2g'
MatchSpacedG(s, i) ==
  LET ws == WordThenSpace(s, i)
  IN IF ws = << >> THEN NoMatch
     ELSE LET word == SubSeq(s, i + 1, ws[1])
              hits == {t \in ocr_suffixes : MidSpaceLast(s, ws[2], t, <<"g">>) # -1}
          IN IF hits = {} THEN NoMatch
             ELSE LET t == CHOOSE x \in hits : TRUE
                  IN [len |-> MidSpaceLast(s, ws[2], t, <<"g">>) - i,
                      repl |-> word \o t \o <<"g">>]

\* r'\b(\w+)\s+mid\s+last\b' -> r'\1' followed by joined
MatchSpacedWord(s, i, mid, last, joined) ==
  LET ws == WordThenSpace(s, i)
  IN IF ws = << >> THEN NoMatch
     ELSE LET e == MidSpaceLast(s, ws[2], mid, last)
          IN IF e = -1 THEN NoMatch
             ELSE [len |-> e - i, repl |-> SubSeq(s, i + 1, ws[1]) \o joined]

\* r'\bc\s+on\s+' -> r'con'
MatchCOn(s, i) ==
  IF Boundary(s, i) /\ LitAt(s, i, <<"c">>)
  THEN LET e1 == RunEnd(s, i + 1, SpaceChars)
           e2 == e1 + 2
           e3 == RunEnd(s, Min(e2, Len(s)), SpaceChars)
       IN IF e1 > i + 1 /\ LitAt(s, e1, W_on) /\ e3 > e2
          THEN [len |-> e3 - i, repl |-> W_con] ELSE NoMatch
  ELSE NoMatch

\* r'\bin\s+for\s+m' -> r'inform'
MatchInForM(s, i) ==
  IF Boundary(s, i) /\ LitAt(s, i, W_in)
  THEN LET e1 == RunEnd(s, i + 2, SpaceChars)
           e2 == e1 + 3
           e3 == RunEnd(s, Min(e2, Len(s)), SpaceChars)
       IN IF e1 > i + 2 /\ LitAt(s, e1, W_for) /\ e3 > e2
             /\ LitAt(s, e3, <<"m">>)
          THEN [len |-> e3 + 1 - i, repl |-> W_inform] ELSE NoMatch
  ELSE NoMatch

\* r'\bto\s+(r|s|w)\b' -> r'tor'
MatchToR(s, i) ==
  IF Boundary(s, i) /\ LitAt(s, i, W_to)
  THEN LET e1 == RunEnd(s, i + 2, SpaceChars)
       IN IF e1 > i + 2 /\ e1 < Len(s) /\ s[e1 + 1] \in {"r", "s", "w"}
             /\ Boundary(s, e1 + 1)
          THEN [len |-> e1 + 1 - i, repl |-> W_tor] ELSE NoMatch
  ELSE NoMatch

\* r'(x)(y)' -> r'\1 \2' for one character of first, then one of second
MatchPair(s, i, first, second) ==
  IF i + 2 <= Len(s) /\ s[i + 1] \in first /\ s[i + 2] \in second
  THEN [len |-> 2, repl |-> <<s[i + 1], " ", s[i + 2]>>] ELSE NoMatch

\* r'([a-z])([A-Z][a-z])' -> r'\1 \2'
MatchLowerCapital(s, i) ==
  IF i + 3 <= Len(s) /\ IsLower(s[i + 1]) /\ IsUpper(s[i + 2])
     /\ IsLower(s[i + 3])
  THEN [len |-> 3, repl |-> <<s[i + 1], " ", s[i + 2], s[i + 3]>>]
  ELSE NoMatch

\* rf'([a-z])({prep})([a-z])' with re.IGNORECASE -> rf'\1 \2 \3'
MatchPrep(s, i, prep) ==
  LET n == Len(prep)
  IN IF i + n + 2 <= Len(s)
        /\ IsLower(LowerChar(s[i + 1]))
        /\ LitAtI(s, i + 1, prep)
        /\ IsLower(LowerChar(s[i + n + 2]))
     THEN [len |-> n + 2,
           repl |-> <<s[i + 1], " ">> \o SubSeq(s, i + 2, i + n + 1)
                    \o <<" ", s[i + n + 2]>>]
     ELSE NoMatch

\* r'([a-z])([A-Z][a-z]{2,})' -> r'\1. \2'
MatchSentenceStart(s, i) ==
  IF i + 2 <= Len(s) /\ IsLower(s[i + 1]) /\ IsUpper(s[i + 2])
  THEN LET e == RunEnd(s, i + 2, LowerChars)
       IN IF e >= i + 4
          THEN [len |-> e - i,
                repl |-> <<s[i + 1], ".", " ">> \o SubSeq(s, i + 2, e)]
          ELSE NoMatch
  ELSE NoMatch

\* r'\s+' -> ' '
MatchSpaces(s, i) ==
  LET e == RunEnd(s, i, SpaceChars)
  IN IF e > i THEN [len |-> e - i, repl |-> <<" ">>] ELSE NoMatch

\* r'https?://[^\s]+' -> ''
MatchUrl(s, i) ==
  IF LitAt(s, i, W_http)
  THEN LET j == IF LitAt(s, i + 4, <<"s">> \o W_colon_slashes)
                THEN i + 5 ELSE i + 4
           e == RunEndNot(s, Min(j + 3, Len(s)), SpaceChars)
       IN IF LitAt(s, j, W_colon_slashes) /\ e > j + 3
          THEN [len |-> e - i, repl |-> << >>] ELSE NoMatch
  ELSE NoMatch

\* r'www\.[^\s]+' -> ''
MatchWww(s, i) ==
  IF LitAt(s, i, W_www_dot)
  THEN LET e == RunEndNot(s, i + 4, SpaceChars)
       IN IF e > i + 4 THEN [len |-> e - i, repl |-> << >>] ELSE NoMatch
  ELSE NoMatch

\* r'\s*:.*' at position j, for the match that began at i -> ''
MatchColonRest(s, i, j) ==
  LET e1 == RunEnd(s, j, SpaceChars)
  IN IF LitAt(s, e1, <<":">>)
     THEN [len |-> RunEndNot(s, e1 + 1, {"\n"}) - i, repl |-> << >>]
     ELSE NoMatch

\* r'Image\s*(?:Source|Courtesy)\s*:.*' with re.IGNORECASE -> ''
MatchImageSource(s, i) ==
  IF LitAtI(s, i, W_image)
  THEN LET e1 == RunEnd(s, i + 5, SpaceChars)
       IN IF LitAtI(s, e1, W_source)
          THEN MatchColonRest(s, i, e1 + Len(W_source))
          ELSE IF LitAtI(s, e1, W_courtesy)
          THEN MatchColonRest(s, i, e1 + Len(W_courtesy))
          ELSE NoMatch
  ELSE NoMatch

\* r'Table\s*:.*' and r'Courtesy\s*:.*' with re.IGNORECASE -> ''
MatchLabelled(s, i, label) ==
  IF LitAtI(s, i, label) THEN MatchColonRest(s, i, i + Len(label))
  ELSE NoMatch

\* r'\[\d+\]' -> ''
MatchReference(s, i) ==
  IF LitAt(s, i, <<"[">>)
  THEN LET e == RunEnd(s, i + 1, DigitChars)
       IN IF e > i + 1 /\ LitAt(s, e, <<"]">>)
          THEN [len |-> e + 1 - i, repl |-> << >>] ELSE NoMatch
  ELSE NoMatch

\* the match of one of the patterns of the cleaner at i
MatchAt(step, s, i) ==
  CASE step.re = "spaced_g" -> MatchSpacedG(s, i)
    [] step.re = "at_ion" -> MatchSpacedWord(s, i, W_at, W_ion, W_ation)
    [] step.re = "on_s" -> MatchSpacedWord(s, i, W_on, <<"s">>, W_ons)
    [] step.re = "c_on" -> MatchCOn(s, i)
    [] step.re = "in_for_m" -> MatchInForM(s, i)
    [] step.re = "to_r" -> MatchToR(s, i)
    [] step.re = "lower_upper" -> MatchPair(s, i, LowerChars, UpperChars)
    [] step.re = "lower_digit" -> MatchPair(s, i, LowerChars, DigitChars)
    [] step.re = "digit_letter" ->
         MatchPair(s, i, DigitChars, LowerChars \cup UpperChars)
    [] step.re = "lower_capital" -> MatchLowerCapital(s, i)
    [] step.re = "prep" -> MatchPrep(s, i, step.arg)
    [] step.re = "sentence_start" -> MatchSentenceStart(s, i)
    [] step.re = "spaces" -> MatchSpaces(s, i)
    [] step.re = "url" -> MatchUrl(s, i)
    [] step.re = "www" -> MatchWww(s, i)
    [] step.re = "image_source" -> MatchImageSource(s, i)
    [] step.re = "table" -> MatchLabelled(s, i, W_table)
    [] step.re = "courtesy" -> MatchLabelled(s, i, W_courtesy)
    [] step.re = "reference" -> MatchReference(s, i)

\* re.sub for the pattern step over the positions i .. j-1, scanned from
\* the left: a match is replaced and the scan goes on after it, a position
\* with no match gives its character.  out is the text made, pos the
\* position the scan has reached (past j when a match goes over j).  The
\* positions are done in two halves, the second from where the first ended
RECURSIVE ReSubRange(_, _, _, _)
ReSubRange(step, s, i, j) ==
  IF i >= j THEN [out |-> << >>, pos |-> i]
  ELSE IF j = i + 1
  THEN CHOOSE r \in
         {IF m.len > 0 THEN [out |-> m.repl, pos |-> i + m.len]
          ELSE [out |-> <<s[i + 1]>>, pos |-> i + 1] :
            m \in {MatchAt(step, s, i)}} : TRUE
  ELSE CHOOSE r \in
         {CHOOSE q \in
            {[out |-> first.out \o second.out, pos |-> second.pos] :
               second \in {ReSubRange(step, s, first.pos, j)}} : TRUE :
            first \in {ReSubRange(step, s, i, (i + j) \div 2)}} : TRUE

\* re.sub for the pattern step, from position i on
ReSubFrom(step, s, i) ==
  CHOOSE t \in {r.out : r \in {ReSubRange(step, s, i, Len(s))}} : TRUE

\* re.sub(pattern, repl, text)
ReSub(step, text) ==
  CHOOSE r \in {ReSubFrom(step, s, 0) : s \in {text}} : TRUE

Re(name) == [re |-> name, arg |-> << >>]

\* the re.sub calls of clean_concatenated_text, in order
CleanSteps ==
  <<Re("spaced_g"), Re("at_ion"), Re("on_s"), Re("c_on"), Re("in_for_m"),
    Re("to_r"), Re("lower_upper"), Re("lower_digit"), Re("digit_letter"),
    Re("lower_capital")>>
  \o [k \in 1..Len(common_preps) |-> [re |-> "prep", arg |-> common_preps[k]]]
  \o <<Re("sentence_start"), Re("spaces")>>

\* the steps lo .. hi applied to s in order: the first half of them, then
\* the second half to what the first half gave
RECURSIVE ApplyRange(_, _, _, _)
ApplyRange(steps, lo, hi, s) ==
  IF lo = hi THEN ReSub(steps[lo], s)
  ELSE CHOOSE r \in
         {ApplyRange(steps, (lo + hi) \div 2 + 1, hi, t) :
            t \in {ApplyRange(steps, lo, (lo + hi) \div 2, s)}} : TRUE

\* the first n steps applied to s
ApplySteps(steps, n, s) == IF n = 0 THEN s ELSE ApplyRange(steps, 1, n, s)

\* AdvancedTextCleaner.clean_concatenated_text
CleanConcatenatedText(text) ==
  IF text = << >> THEN << >> ELSE ApplySteps(CleanSteps, Len(CleanSteps), text)


\* len(text.strip()) < 50
MinPageLen == 50
\* len(words) > 20
ManyWords == 20
\* len(words) > 5
FewWords == 5
\* len(sent) < 15
MinMeaningfulLen == 15
\* len(words) < 3
MinMeaningfulWords == 3
\* len(re.findall(r'\d', sent)) / max(len(sent), 1) > 0.6 = 3 / 5
MostlyDigitsNum == 3
MostlyDigitsDen == 5
\* len(re.findall(r'[^\w\s]', sent)) / max(len(sent), 1) > 0.5 = 1 / 2
MostlySpecialNum == 1
MostlySpecialDen == 2

Vowels == {"a", "e", "i", "o", "u", "A", "E", "I", "O", "U"}

\* the tests of extract_meaningful_sentences on one stripped sentence
IsMeaningful(sent) ==
  LET n == Max(Len(sent), 1)
      digits == Cardinality({i \in 1..Len(sent) : IsDigit(sent[i])})
      special == Cardinality({i \in 1..Len(sent) :
                    ~IsWordChar(sent[i]) /\ ~IsSpace(sent[i])})
  IN /\ ~(Len(sent) < MinMeaningfulLen)
     /\ ~(digits * MostlyDigitsDen > MostlyDigitsNum * n)
     /\ ~(special * MostlySpecialDen > MostlySpecialNum * n)
     /\ ~(Len(SplitWS(sent)) < MinMeaningfulWords)
     /\ \E i \in 1..Len(sent) : sent[i] \in Vowels

\* the loop of extract_meaningful_sentences
RECURSIVE MeaningfulOf(_)
MeaningfulOf(pieces) ==
  IF pieces = << >> THEN << >>
  ELSE (IF IsMeaningful(Strip(Head(pieces)))
        THEN <<Strip(Head(pieces))>> ELSE << >>)
       \o MeaningfulOf(Tail(pieces))

\* AdvancedTextCleaner.extract_meaningful_sentences
ExtractMeaningfulSentences(text) ==
  MeaningfulOf(SplitRuns(CleanConcatenatedText(text), {".", "!", "?"}))

\* the re.sub calls of clean_page_content, in order
PageSteps ==
  <<Re("url"), Re("www"), Re("image_source"), Re("table"), Re("courtesy"),
    Re("reference")>>

\* AdvancedTextCleaner.clean_page_content
CleanPageContent(text) ==
  IF text = << >> \/ Len(Strip(text)) < MinPageLen THEN << >>
  ELSE CHOOSE r \in
         {LET words == SplitWS(cleaned_text)
              sentences == ExtractMeaningfulSentences(cleaned_text)
          IN IF Len(words) > ManyWords THEN cleaned_text
             ELSE IF sentences = << >> /\ Len(words) > FewWords
                  THEN cleaned_text
             ELSE Join(sentences, <<"\n">>) :
            cleaned_text \in
              {CleanConcatenatedText(
                 ApplySteps(PageSteps, Len(PageSteps), text))}} : TRUE


(***************************************************************************)
(* The cleaner applied to a page text, and applied again to its own        *)
(* output.                                                                 *)
(***************************************************************************)
\* 'Plants absorb sunlight through green leaves today.'
FRAG_plants ==
  <<"P","l","a","n","t","s"," ","a","b","s","o","r","b"," ","s","u","n","l",
    "i","g","h","t"," ","t","h","r","o","u","g","h"," ","g","r","e","e","n",
    " ","l","e","a","v","e","s"," ","t","o","d","a","y",".">>
\* 'to water'
FRAG_water ==
  <<"t","o"," ","w","a","t","e","r">>
\* 'See https://example.com/notes for details'
FRAG_url ==
  <<"S","e","e"," ","h","t","t","p","s",":","/","/","e","x","a","m","p","l",
    "e",".","c","o","m","/","n","o","t","e","s"," ","f","o","r"," ","d","e",
    "t","a","i","l","s">>
\* 'Photosynthesis [12] is shown on page1'
FRAG_ref ==
  <<"P","h","o","t","o","s","y","n","t","h","e","s","i","s"," ","[","1","2",
    "]"," ","i","s"," ","s","h","o","w","n"," ","o","n"," ","p","a","g","e",
    "1">>
\* 'runn in g and inform at ion'
FRAG_ocr ==
  <<"r","u","n","n"," ","i","n"," ","g"," ","a","n","d"," ","i","n","f","o",
    "r","m"," ","a","t"," ","i","o","n">>
\* 'Ice melts fast.'
FRAG_ice ==
  <<"I","c","e"," ","m","e","l","t","s"," ","f","a","s","t",".">>
\* 'Table: marks\nHeat flows'
FRAG_table ==
  <<"T","a","b","l","e",":"," ","m","a","r","k","s","\n","H","e","a","t"," ",
    "f","l","o","w","s">>
\* 'endNext dataVisualization'
FRAG_joined ==
  <<"e","n","d","N","e","x","t"," ","d","a","t","a","V","i","s","u","a","l",
    "i","z","a","t","i","o","n">>

CleanFragments ==
  {FRAG_plants, FRAG_water, FRAG_url, FRAG_ref,
   FRAG_ocr, FRAG_ice, FRAG_table, FRAG_joined}

\* the most fragments in a page text
MaxFragments == 2

\* the call of a cleaning function on a page text, before it runs
InitClean ==
  /\ IdleNG
  /\ rank_st = Idle /\ dedup_st = Idle /\ kw_st = Idle /\ class_st = Idle
  /\ \E n \in 1..MaxFragments : \E frags \in [1..n -> CleanFragments] :
        clean_st = [pc |-> "start", fn |-> "none",
                    text |-> Join(frags, <<" ">>),
                    once |-> << >>, twice |-> << >>]

CleanOthersUnchanged ==
  UNCHANGED <<ngvars, qavars, rank_st, dedup_st, kw_st, class_st>>

\* clean_page_content(text)
CleanPageFirst ==
  /\ clean_st.pc = "start"
  /\ clean_st' = [clean_st EXCEPT
        !.pc = "once", !.fn = "clean_page_content",
        !.once = CleanPageContent(clean_st.text)]
  /\ CleanOthersUnchanged

\* clean_page_content applied to its own output
CleanPageSecond ==
  /\ clean_st.pc = "once" /\ clean_st.fn = "clean_page_content"
  /\ clean_st' = [clean_st EXCEPT
        !.pc = "twice", !.twice = CleanPageContent(clean_st.once)]
  /\ CleanOthersUnchanged

\* clean_concatenated_text(text)
CleanConcatFirst ==
  /\ clean_st.pc = "start"
  /\ clean_st' = [clean_st EXCEPT
        !.pc = "once", !.fn = "clean_concatenated_text",
        !.once = CleanConcatenatedText(clean_st.text)]
  /\ CleanOthersUnchanged

\* clean_concatenated_text applied to its own output
CleanConcatSecond ==
  /\ clean_st.pc = "once" /\ clean_st.fn = "clean_concatenated_text"
  /\ clean_st' = [clean_st EXCEPT
        !.pc = "twice", !.twice = CleanConcatenatedText(clean_st.once)]
  /\ CleanOthersUnchanged

NextClean ==
  \/ CleanPageFirst
  \/ CleanPageSecond
  \/ CleanConcatFirst
  \/ CleanConcatSecond

SpecClean == InitClean /\ [][NextClean]_vars

\* C9: the page normalizer is idempotent: clean_page_content applied to
\* its own output returns that output unchanged, and likewise
\* clean_concatenated_text.
C9_CleanerIdempotent ==
  clean_st.pc = "twice" => clean_st.twice = clean_st.once


(***************************************************************************)
(* PDFExtractor.extract_text (modules/pdf_extractor.py) and                *)
(* TextPreprocessor.preprocess (modules/text_preprocessor.py): from the    *)
(* page texts of a document to its text, pages and sentences.  The page    *)
(* texts are what pdfplumber returns for the pages of the file.            *)
(***************************************************************************)
\* 'Osmosis is the movement of fluid across a thin membrane. Cells use osmosis because it keeps their fluid levels equal. Salt draws fluid out of a cell.'
RAW_osmosis ==
  <<"O","s","m","o","s","i","s"," ","i","s"," ","t","h","e"," ","m","o","v",
    "e","m","e","n","t"," ","o","f"," ","f","l","u","i","d"," ","a","c","r",
    "o","s","s"," ","a"," ","t","h","i","n"," ","m","e","m","b","r","a","n",
    "e","."," ","C","e","l","l","s"," ","u","s","e"," ","o","s","m","o","s",
    "i","s"," ","b","e","c","a","u","s","e"," ","i","t"," ","k","e","e","p",
    "s"," ","t","h","e","i","r"," ","f","l","u","i","d"," ","l","e","v","e",
    "l","s"," ","e","q","u","a","l","."," ","S","a","l","t"," ","d","r","a",
    "w","s"," ","f","l","u","i","d"," ","o","u","t"," ","o","f"," ","a"," ",
    "c","e","l","l",".">>
\* 'Diffusion is the spread of particles in a gas. Particles move because they have energy. A warm gas spreads faster than a cold gas.'
RAW_diffusion ==
  <<"D","i","f","f","u","s","i","o","n"," ","i","s"," ","t","h","e"," ","s",
    "p","r","e","a","d"," ","o","f"," ","p","a","r","t","i","c","l","e","s",
    " ","i","n"," ","a"," ","g","a","s","."," ","P","a","r","t","i","c","l",
    "e","s"," ","m","o","v","e"," ","b","e","c","a","u","s","e"," ","t","h",
    "e","y"," ","h","a","v","e"," ","e","n","e","r","g","y","."," ","A"," ",
    "w","a","r","m"," ","g","a","s"," ","s","p","r","e","a","d","s"," ","f",
    "a","s","t","e","r"," ","t","h","a","n"," ","a"," ","c","o","l","d"," ",
    "g","a","s",".">>
\* 'Plants produce sugars with bright light, carbon dioxide, moisture.'
RAW_nine_words ==
  <<"P","l","a","n","t","s"," ","p","r","o","d","u","c","e"," ","s","u","g",
    "a","r","s"," ","w","i","t","h"," ","b","r","i","g","h","t"," ","l","i",
    "g","h","t",","," ","c","a","r","b","o","n"," ","d","i","o","x","i","d",
    "e",","," ","m","o","i","s","t","u","r","e",".">>
\* 'Plants produce sugars with bright light, carbon dioxide, fresh moisture.'
RAW_ten_words ==
  <<"P","l","a","n","t","s"," ","p","r","o","d","u","c","e"," ","s","u","g",
    "a","r","s"," ","w","i","t","h"," ","b","r","i","g","h","t"," ","l","i",
    "g","h","t",","," ","c","a","r","b","o","n"," ","d","i","o","x","i","d",
    "e",","," ","f","r","e","s","h"," ","m","o","i","s","t","u","r","e",".">>
\* 'Short page.'
RAW_short ==
  <<"S","h","o","r","t"," ","p","a","g","e",".">>

\* the documents: the texts of the pages of each file
RawDocs ==
  {<<RAW_short>>, <<RAW_nine_words>>, <<RAW_ten_words>>, <<RAW_osmosis>>,
   <<RAW_osmosis, RAW_diffusion>>}

\* the entry of pages_data that a page adds, if it adds one
PageData(page_text, cleaned_text, page_num) ==
  IF page_text # << >> /\ Strip(cleaned_text) # << >>
  THEN <<[page_num |-> page_num, text |-> cleaned_text,
          word_count |-> Len(SplitWS(cleaned_text))]>>
  ELSE << >>

\* the loop of extract_text over pdf.pages from page page_num on
RECURSIVE ExtractPages(_, _)
ExtractPages(raw, page_num) ==
  IF page_num > Len(raw) THEN << >>
  ELSE (CHOOSE d \in {PageData(raw[page_num], cleaned_text, page_num) :
                        cleaned_text \in {CleanPageContent(raw[page_num])}} : TRUE)
       \o ExtractPages(raw, page_num + 1)

\* "\n\n".join(all_text)
JoinPages(pages_data) ==
  Join([i \in 1..Len(pages_data) |-> pages_data[i].text], <<"\n", "\n">>)

\* the dictionary extract_text returns
ExtractionResult(text, pages_data, page_count) ==
  [text |-> text, pages |-> pages_data, page_count |-> page_count,
   word_count |-> Len(SplitWS(text))]

\* PDFExtractor.extract_text
ExtractText(raw) ==
  CHOOSE r \in {ExtractionResult(JoinPages(pages_data), pages_data, Len(raw)) :
                  pages_data \in {ExtractPages(raw, 1)}} : TRUE

\* what extract_text returns for each document
Extractions == {ExtractText(raw) : raw \in RawDocs}

\* nltk's sent_tokenize on plain prose: a sentence ends at a run of
\* terminal marks that whitespace follows, or at the end of the text
RECURSIVE SentTokenize(_)
SentTokenize(text) ==
  LET t == LStrip(text)
      ends == {e \in 1..Len(t) :
                 /\ t[e] \in {".", "!", "?"}
                 /\ e < Len(t) /\ IsSpace(t[e + 1])}
  IN IF t = << >> THEN << >>
     ELSE IF ends = {} THEN <<RStrip(t)>>
     ELSE LET e == CHOOSE k \in ends : \A j \in ends : k <= j
          IN <<SubSeq(t, 1, e)>> \o SentTokenize(SubSeq(t, e + 1, Len(t)))

\* word_count < 5 or word_count > 150
MinSentenceWords == 5
MaxSentenceWords == 150

\* the institutional phrases tokenize_sentences skips
institution_patterns ==
  {<<"r","v"," ","c","o","l","l","e","g","e"," ","o","f"," ","e","n","g",
     "i","n","e","e","r","i","n","g">>,
   <<"d","e","p","a","r","t","m","e","n","t"," ","o","f"," ","e","l","e",
     "c","t","r","o","n","i","c","s">>,
   <<"l","a","b","o","r","a","t","o","r","y"," ","m","a","n","u","a","l">>,
   <<"o","b","s","e","r","v","a","t","i","o","n"," ","b","o","o","k">>,
   <<"a","u","t","o","n","o","m","o","u","s"," ","i","n","s","t","i","t",
     "u","t","i","o","n">>,
   <<"a","n","a","l","y","s","i","s"," ","a","n","d"," ","d","e","s","i","g",
     "n"," ","o","f"," ","d","i","g","i","t","a","l"," ","c","i","r",
     "c","u","i","t","s"," ","w","i","t","h"," ","h","d","l">>,
   <<"c","r","i","t","e","r","i","a"," ","m","a","x"," ","m","a","r","k",
     "s"," ","m","a","r","k","s"," ","o","b","t","a","i","n","e","d">>,
   <<"p","r","o","b","l","e","m"," ","s","t","a","t","e","m","e","n","t"," ",
     "d","e","s","i","g","n"," ","s","p","e","c","i","f","i","c","a",
     "t","i","o","n","s">>,
   <<"s","i","m","u","l","a","t","i","o","n"," ","c","o","n","d","u","c","t",
     "i","o","n"," ","o","f"," ","t","h","e"," ","e","x","p","e","r",
     "i","m","e","n","t">>}

\* re.match(r'^[\d\s.]+$', s) or more than half of s is digits
IsNumbering(s) ==
  \/ s # << >> /\ \A i \in 1..Len(s) : IsDigit(s[i]) \/ IsSpace(s[i]) \/ s[i] = "."
  \/ 2 * Cardinality({i \in 1..Len(s) : IsDigit(s[i])}) > Max(Len(s), 1)

\* the loop of tokenize_sentences over sentences from position i on
RECURSIVE FilterSentences(_, _, _)
FilterSentences(sentences, i, seen_sentences) ==
  IF i > Len(sentences) THEN << >>
  ELSE LET s == Strip(sentences[i])
           word_count == Len(SplitWS(s))
       IN IF \/ word_count < MinSentenceWords \/ word_count > MaxSentenceWords
             \/ \E p \in institution_patterns : Contains(Lower(s), p)
             \/ IsNumbering(s)
             \/ Lower(s) \in seen_sentences
          THEN FilterSentences(sentences, i + 1, seen_sentences)
          ELSE <<s>> \o FilterSentences(sentences, i + 1,
                                        seen_sentences \cup {Lower(s)})

\* TextPreprocessor.tokenize_sentences
TokenizeSentences(text) == FilterSentences(SentTokenize(text), 1, {})

\* re.sub(r'\s+([.,;:!?])', r'\1', sentence) on a sentence whose whitespace
\* is single spaces
RECURSIVE FixPunctuation(_)
FixPunctuation(s) ==
  IF s = << >> THEN << >>
  ELSE IF Len(s) >= 2 /\ s[1] = " " /\ s[2] \in {".", ",", ";", ":", "!", "?"}
       THEN FixPunctuation(Tail(s))
       ELSE <<Head(s)>> \o FixPunctuation(Tail(s))

\* TextPreprocessor.clean_sentence
CleanSentence(sentence) ==
  LET joined == FixPunctuation(Join(SplitWS(sentence), <<" ">>))
  IN Strip(IF joined # << >> /\ joined[Len(joined)] \notin {".", "!", "?"}
           THEN joined \o <<".">> ELSE joined)

\* preprocess(text)['sentences']
PreprocessSentences(text) ==
  LET sentences == TokenizeSentences(text)
  IN [i \in 1..Len(sentences) |-> CleanSentence(sentences[i])]


(***************************************************************************)
(* The generative service (modules/llm_summarizer.py): what it answers to  *)
(* one request, and what LLMSummarizer.generate makes of the answer.       *)
(***************************************************************************)
\* 'DEFINITIONS:\n- Osmosis: fluid crossing a membrane\nCONCEPTS:\n* Cells balance their fluid\nPROCEDURES:\n1. Place the cell in salt\nIMPORTANT_POINTS:\n- Fluid follows the salt'
RESP_sections ==
  <<"D","E","F","I","N","I","T","I","O","N","S",":","\n","-"," ","O","s","m",
    "o","s","i","s",":"," ","f","l","u","i","d"," ","c","r","o","s","s","i",
    "n","g"," ","a"," ","m","e","m","b","r","a","n","e","\n","C","O","N","C",
    "E","P","T","S",":","\n","*"," ","C","e","l","l","s"," ","b","a","l","a",
    "n","c","e"," ","t","h","e","i","r"," ","f","l","u","i","d","\n","P","R",
    "O","C","E","D","U","R","E","S",":","\n","1","."," ","P","l","a","c","e",
    " ","t","h","e"," ","c","e","l","l"," ","i","n"," ","s","a","l","t","\n",
    "I","M","P","O","R","T","A","N","T","_","P","O","I","N","T","S",":","\n",
    "-"," ","F","l","u","i","d"," ","f","o","l","l","o","w","s"," ","t","h",
    "e"," ","s","a","l","t">>
\* 'No key points were found.'
RESP_prose ==
  <<"N","o"," ","k","e","y"," ","p","o","i","n","t","s"," ","w","e","r","e",
    " ","f","o","u","n","d",".">>
\* 'Osmosis moves fluid across membranes.'
RESP_overview ==
  <<"O","s","m","o","s","i","s"," ","m","o","v","e","s"," ","f","l","u","i",
    "d"," ","a","c","r","o","s","s"," ","m","e","m","b","r","a","n","e","s",
    ".">>
\* 'Q1: What is osmosis?\nA1: Fluid crossing a membrane\nQ2: Why do cells swell?\nA2: Fluid enters them'
RESP_qa ==
  <<"Q","1",":"," ","W","h","a","t"," ","i","s"," ","o","s","m","o","s","i",
    "s","?","\n","A","1",":"," ","F","l","u","i","d"," ","c","r","o","s","s",
    "i","n","g"," ","a"," ","m","e","m","b","r","a","n","e","\n","Q","2",":",
    " ","W","h","y"," ","d","o"," ","c","e","l","l","s"," ","s","w","e","l",
    "l","?","\n","A","2",":"," ","F","l","u","i","d"," ","e","n","t","e","r",
    "s"," ","t","h","e","m">>
\* 'Q1: What is osmosis?\nA1: Fluid crossing a membrane\nQ2: what is Osmosis?\nA2: A movement of fluid'
RESP_qa_repeated ==
  <<"Q","1",":"," ","W","h","a","t"," ","i","s"," ","o","s","m","o","s","i",
    "s","?","\n","A","1",":"," ","F","l","u","i","d"," ","c","r","o","s","s",
    "i","n","g"," ","a"," ","m","e","m","b","r","a","n","e","\n","Q","2",":",
    " ","w","h","a","t"," ","i","s"," ","O","s","m","o","s","i","s","?","\n",
    "A","2",":"," ","A"," ","m","o","v","e","m","e","n","t"," ","o","f"," ",
    "f","l","u","i","d">>
\* 'Test passed'
RESP_probe ==
  <<"T","e","s","t"," ","p","a","s","s","e","d">>

\* response.status_code == 200
StatusOK == 200

\* what the service does with one request: it answers with a status and a
\* body (for Ollama the 'response' field of the JSON, for Groq the content
\* of the first choice), or the request ends in an exception
ServiceOutcomes(bodies) ==
  {[kind |-> "response", status |-> StatusOK, body |-> b] : b \in bodies}
  \cup {[kind |-> "response", status |-> 500, body |-> RESP_prose]}
  \cup {[kind |-> k, status |-> 0, body |-> << >>] :
          k \in {"connection_error", "timeout", "malformed_body"}}

\* whether the request failed: no answer, an answer that is not JSON, or a
\* status other than 200
Failed(o) == ~(o.kind = "response" /\ o.status = StatusOK)

\* LLMSummarizer._generate_ollama
GenerateOllamaAnyStatus(o) ==
  IF o.kind = "response" THEN Strip(o.body) ELSE << >>
GenerateOllama(o) ==
  IF o.kind = "response"
  THEN IF o.status = StatusOK THEN Strip(o.body) ELSE << >>
  ELSE << >>

\* LLMSummarizer._generate_groq: the client raises on every answer that is
\* not a completion, and the handler returns ""
GenerateGroq(o) ==
  IF o.kind = "response" /\ o.status = StatusOK THEN Strip(o.body) ELSE << >>

\* LLMSummarizer.generate
Generate(use_groq, o) ==
  IF use_groq THEN GenerateGroq(o) ELSE GenerateOllama(o)

\* LLMSummarizer.test_connection
TestConnection(use_groq, o) == Len(Generate(use_groq, o)) > 0

\* LLMSummarizer.__init__: env is what the process finds, "ollama" (Groq
\* not asked for), "groq" (asked for, client built), "groq_missing" (the
\* import fails, Ollama is used) or "groq_error" (the client constructor
\* raises, and so does __init__)
ConstructorRaises(env) == env = "groq_error"
UseGroq(env) == env = "groq"

\* self.use_llm at the end of NotesGenerator.__init__
UseLLMAsAsked(arg, raised, probe_ok) == arg
UseLLMAfterInit(arg, raised, probe_ok) == arg /\ ~raised /\ probe_ok

\* the sum of the four section lengths over the pages
RECURSIVE TotalPoints(_)
TotalPoints(pages_content) ==
  IF pages_content = << >> THEN 0
  ELSE Len(Head(pages_content).definitions) + Len(Head(pages_content).concepts)
       + Len(Head(pages_content).procedures)
       + Len(Head(pages_content).important_points)
       + TotalPoints(Tail(pages_content))

\* structured_content of the generative path
LLMStructuredContent(pages_data, llm_pages_content, synthesis, llm_qa_pairs) ==
  [llm_generated |-> TRUE,
   pages_content |-> llm_pages_content,
   synthesis |-> synthesis,
   qa_pairs |-> llm_qa_pairs,
   total_pages |-> Len(pages_data),
   total_points |-> TotalPoints(llm_pages_content)]

\* the cache of LLMSummarizer, a dict kept as the sequence of its items
InCache(c, key) == \E i \in 1..Len(c) : c[i].key = key
CacheGet(c, key) == c[CHOOSE i \in 1..Len(c) : c[i].key = key].content
\* a cache that keeps nothing
CacheKeepNothing(c, key, content) == c
\* self.cache[cache_key] = content
CachePut(c, key, content) ==
  IF InCache(c, key)
  THEN [i \in 1..Len(c) |->
          IF c[i].key = key THEN [c[i] EXCEPT !.content = content] ELSE c[i]]
  ELSE Append(c, [key |-> key, content |-> content])

(***************************************************************************)
(* The rule-based path of generate_notes.                                  *)
(***************************************************************************)
\* the sentences of a list that fall in a category, stripped
RECURSIVE OfCategory(_, _)
OfCategory(sentences, category) ==
  IF sentences = << >> THEN << >>
  ELSE (IF Category(Strip(Head(sentences))) = category
        THEN <<Strip(Head(sentences))>> ELSE << >>)
       \o OfCategory(Tail(sentences), category)

\* the points of a page and the dictionary _extract_page_content returns
\* (the heading is left out)
CompilePage(definitions, procedures, concepts, general_points, page_num) ==
  [points |-> PointsOf(definitions, MaxPerCategory, page_num, "definition")
              \o PointsOf(concepts, MaxPerCategory, page_num, "concept")
              \o PointsOf(procedures, MaxPerCategory, page_num, "procedure")
              \o PointsOf(general_points, MaxGeneralPoints, page_num, "content"),
   page |-> page_num,
   definitions |-> definitions,
   concepts |-> concepts,
   procedures |-> procedures]

\* IntelligentExtractor._extract_page_content
ExtractPageContent(text, page_num) ==
  CHOOSE r \in
    {CompilePage(DeduplicateList(OfCategory(sentences, "definition")),
                 DeduplicateList(OfCategory(sentences, "procedure")),
                 DeduplicateList(OfCategory(sentences, "concept")),
                 DeduplicateList(OfCategory(sentences, "content")),
                 page_num) :
       sentences \in {SplitIntoSentences(text)}} : TRUE

\* all_important_points after the loop of extract_structured_content
RECURSIVE AllPoints(_)
AllPoints(pdf_pages) ==
  IF pdf_pages = << >> THEN << >>
  ELSE ExtractPageContent(Head(pdf_pages).text, Head(pdf_pages).page_num).points
       \o AllPoints(Tail(pdf_pages))

\* IntelligentExtractor.extract_structured_content (sections and
\* page_summaries are left out)
ExtractStructuredContent(pdf_pages) ==
  CHOOSE r \in
    {[all_points |-> all_important_points,
      total_pages |-> Len(pdf_pages),
      total_points |-> Len(all_important_points)] :
       all_important_points \in {AllPoints(pdf_pages)}} : TRUE


(***************************************************************************)
(* Steps 2 to 7 of generate_notes: sentences, keywords, ranking, summary,  *)
(* key points and questions.                                               *)
(***************************************************************************)
\* len(text.split()) < 10
MinDocWords == 10
\* len(sentences) < 2
MinDocSentences == 2
\* pages_data[:20]
MaxLLMPages == 20
\* num_questions=15
NumQuestions == 15
\* extract_keywords(text, sentences, top_n=30) and keywords[:30]
KeywordsTopN == 30
\* ranked_sentences[:10]
TopSentencesShown == 10
\* min_sentences = 20 in generate_summary
SummaryMinSentences == 20
\* generate_key_points(sentences, top_n=50)
KeyPointsTopN == 50
\* max(30, int(total * 0.6))
KeyPointsFloor == 30

\* not text or len(text.split()) < 10
InsufficientTextLenient(text) == text = << >> \/ Len(SplitWS(text)) <= MinDocWords
InsufficientText(text) == text = << >> \/ Len(SplitWS(text)) < MinDocWords

\* the scores the ranker gives the sentences of a document (TF-IDF,
\* TextRank, position and length, combined): one score for each sentence
ScoreVectors(n) == {[i \in 1..n |-> 1], [i \in 1..n |-> i % 2]}

\* the sentences at a sequence of positions
SentencesAt(sentences, indices) ==
  [p \in 1..Len(indices) |-> sentences[indices[p]]]

\* Summarizer.generate_summary(sentences, summary_ratio=0.7); ratio is the
\* pair len(summary_sentences), len(sentences)
GenerateSummary(sentences, scores) ==
  IF sentences = << >>
  THEN [summary |-> << >>, sentences |-> << >>, ratio |-> [num |-> 0, den |-> 1]]
  ELSE LET total_sentences == Len(sentences)
           target_count == Max(SummaryMinSentences, (total_sentences * 7) \div 10)
           summary_sentences == SentencesAt(sentences, GetTopSentences(scores, target_count))
       IN [summary |-> Join(summary_sentences, <<" ">>),
           sentences |-> summary_sentences,
           ratio |-> [num |-> Len(summary_sentences), den |-> total_sentences]]

\* Summarizer.generate_key_points(sentences, top_n)
GenerateKeyPoints(sentences, scores, top_n) ==
  IF sentences = << >> THEN << >>
  ELSE LET total == Len(sentences)
           adaptive_n == Min(top_n, Max(KeyPointsFloor, (total * 6) \div 10))
       IN SentencesAt(sentences, GetTopSentences(scores, Min(adaptive_n, total)))

\* f"{ratio:.1%}": the ratio in tenths of a percent, rounded
PercentTenths(ratio) == (2000 * ratio.num + ratio.den) \div (2 * ratio.den)

\* the 'summary' entry of the bundle as the rule-based steps make it
RuleSummary(summary_result) ==
  [text |-> summary_result.summary,
   sentences |-> summary_result.sentences,
   compression_ratio |-> [label |-> "percent", tenths |-> PercentTenths(summary_result.ratio)]]

\* structured_content.get('synthesis', summary_result['summary'])
SynthesisOr(structured_content, default) ==
  IF "synthesis" \in DOMAIN structured_content
  THEN structured_content.synthesis ELSE default

\* the 'summary' entry of the bundle; the string "AI Generated" is the
\* label of a ratio without a number
SummaryEntryRuleBased(llm, structured_content, summary_result) ==
  RuleSummary(summary_result)
SummaryEntry(llm, structured_content, summary_result) ==
  [text |-> IF llm THEN SynthesisOr(structured_content, summary_result.summary)
            ELSE summary_result.summary,
   sentences |-> IF ~llm THEN summary_result.sentences ELSE << >>,
   compression_ratio |->
     IF ~llm
     THEN [label |-> "percent", tenths |-> PercentTenths(summary_result.ratio)]
     ELSE [label |-> "AI Generated", tenths |-> 0]]

\* what the four keyword methods return for a document: TF-IDF scores, RAKE
\* scores, noun chunks and word counts come from scikit-learn, rake_nltk,
\* spaCy and collections.Counter
KeywordMethodResults ==
  {[tfidf |-> <<[term |-> KW_heat, score |-> 2], [term |-> KW_data, score |-> 1]>>,
    has_rake |-> TRUE,
    rake |-> <<[term |-> KW_data, score |-> RakeScoreOf(KW_data)]>>,
    has_noun |-> TRUE,
    noun_phrases |-> ExtractNounPhrases(<<CHUNK_Data, KW_heat>>, KeywordsTopN),
    frequency |-> <<[term |-> KW_data, freq |-> 2], [term |-> KW_heat, freq |-> 1]>>],
   [tfidf |-> <<[term |-> KW_data, score |-> 1]>>,
    has_rake |-> FALSE, rake |-> << >>,
    has_noun |-> FALSE, noun_phrases |-> << >>,
    frequency |-> <<[term |-> KW_data, freq |-> 1]>>]}

\* KeywordExtractor.extract_keywords(...)['combined']
ExtractKeywords(kr, top_n) ==
  CombineKeywords(kr.tfidf, kr.has_rake, kr.rake, kr.has_noun, kr.noun_phrases,
                  kr.frequency, top_n)

\* the 'keywords' entry of the bundle (the formatted score is left out)
KeywordsEntry(keywords) ==
  [i \in 1..Min(KeywordsTopN, Len(keywords)) |-> [term |-> keywords[i].term]]

\* the 'top_sentences' entry of the bundle (the formatted score is left out)
TopSentencesEntry(sentences, scores) ==
  LET ranked_sentences == RankSentences(scores)
  IN [i \in 1..Min(TopSentencesShown, Len(ranked_sentences)) |->
        [rank |-> i, text |-> sentences[ranked_sentences[i]]]]

\* 'What is osmosis?'
Q_what ==
  <<"W","h","a","t"," ","i","s"," ","o","s","m","o","s","i","s","?">>
\* 'what is osmosis?'
Q_what_lower ==
  <<"w","h","a","t"," ","i","s"," ","o","s","m","o","s","i","s","?">>
\* 'Why is osmosis important?'
Q_why ==
  <<"W","h","y"," ","i","s"," ","o","s","m","o","s","i","s"," ","i","m","p",
    "o","r","t","a","n","t","?">>
\* 'Osmosis is the movement of fluid across a thin membrane.'
ANS_osmosis ==
  <<"O","s","m","o","s","i","s"," ","i","s"," ","t","h","e"," ","m","o","v",
    "e","m","e","n","t"," ","o","f"," ","f","l","u","i","d"," ","a","c","r",
    "o","s","s"," ","a"," ","t","h","i","n"," ","m","e","m","b","r","a","n",
    "e",".">>

\* QAGenerator._deduplicate_questions
RECURSIVE DedupQuestionsFrom(_, _)
DedupQuestionsFrom(qa_pairs, seen_questions) ==
  IF qa_pairs = << >> THEN << >>
  ELSE LET qa == Head(qa_pairs)
           q == Strip(Lower(qa.question))
       IN IF q \notin seen_questions /\ qa.answer # << >>
          THEN <<qa>> \o DedupQuestionsFrom(Tail(qa_pairs), seen_questions \cup {q})
          ELSE DedupQuestionsFrom(Tail(qa_pairs), seen_questions)

DeduplicateQuestions(qa_pairs) == DedupQuestionsFrom(qa_pairs, {})

\* what the keyword, pattern and transformation methods of QAGenerator
\* yield for a document, in the order generate_questions joins them
QACandidateLists ==
  {<< >>,
   <<[question |-> Q_what, answer |-> ANS_osmosis],
     [question |-> Q_why, answer |-> << >>],
     [question |-> Q_what_lower, answer |-> ANS_osmosis],
     [question |-> Q_why, answer |-> ANS_osmosis]>>}

\* QAGenerator.generate_questions from the joined candidates on
GenerateQuestions(candidates, num_questions) ==
  Prefix(DeduplicateQuestions(candidates), num_questions)

\* the bodies the service may answer with to the request of each phase
ProbeBodies == {RESP_probe, <<" ">>}
PageBodies == {RESP_sections, RESP_prose}
SynthesisBodies == {RESP_overview}
QABodies == {RESP_qa, RESP_qa_repeated}

\* TextPreprocessor.preprocess(text)['sentences'] for each document
SentencesOf == [ex \in Extractions |-> PreprocessSentences(ex.text)]
\* the rule-based structured content of each document
RuleStructuredOf == [ex \in Extractions |-> ExtractStructuredContent(ex.pages)]

\* a 'metadata' entry whose ai_generated is true only if items were
\* extracted
MetadataGeneratedIfPoints(no, extraction_result, sentences, structured_content) ==
  [generated_at |-> no,
   page_count |-> extraction_result.page_count,
   word_count |-> extraction_result.word_count,
   sentence_count |-> Len(sentences),
   points_extracted |-> structured_content.total_points,
   ai_generated |-> IF "llm_generated" \in DOMAIN structured_content
                    THEN structured_content.total_points > 0 ELSE FALSE]

\* the 'metadata' entry of the bundle; generated_at is the time of the
\* call, kept as the number of the call (filename and processing_time are
\* left out)
Metadata(no, extraction_result, sentences, structured_content) ==
  [generated_at |-> no,
   page_count |-> extraction_result.page_count,
   word_count |-> extraction_result.word_count,
   sentence_count |-> Len(sentences),
   points_extracted |-> structured_content.total_points,
   ai_generated |-> IF "llm_generated" \in DOMAIN structured_content
                    THEN structured_content.llm_generated ELSE FALSE]

\* Step 7: the questions of the bundle
QAPairs(llm, has, structured_content, candidates) ==
  IF llm /\ has /\ "qa_pairs" \in DOMAIN structured_content
  THEN structured_content.qa_pairs
  ELSE GenerateQuestions(candidates, NumQuestions)

\* self.results as generate_notes compiles it (organized_content is left
\* out)
Bundle(no, llm, has, extraction_result, structured_content, sentences, scores, keyword_results, candidates) ==
  [metadata |-> Metadata(no, extraction_result, sentences, structured_content),
   structured_data |-> structured_content,
   summary |-> SummaryEntry(llm, structured_content,
                            GenerateSummary(sentences, scores)),
   key_points |-> GenerateKeyPoints(sentences, scores, KeyPointsTopN),
   keywords |-> KeywordsEntry(ExtractKeywords(keyword_results, KeywordsTopN)),
   qa_pairs |-> QAPairs(llm, has, structured_content, candidates),
   top_sentences |-> TopSentencesEntry(sentences, scores)]


(***************************************************************************)
(* NotesGenerator (modules/notes_generator.py): construction and           *)
(* generate_notes, one action for each stretch of code between two calls   *)
(* to the generative service.  progress_callback is given.                 *)
(***************************************************************************)
\* the number of generate_notes calls made on the instance
MaxRuns == 2

\* the locals of generate_notes before its first statement has run
NewRun(no, extraction_result) ==
  [no |-> no, outcome |-> "running", error |-> "none",
   extraction_result |-> extraction_result,
   i |-> 1, llm_pages_content |-> << >>, llm_comprehensive_notes |-> << >>,
   structured_content |-> << >>, sentences |-> << >>, scores |-> << >>,
   keyword_results |-> << >>, candidates |-> << >>]

\* the record of one request to the service
Call(phase, i, o, response) ==
  [phase |-> phase, i |-> i, failed |-> Failed(o), response |-> response]

Init ==
  /\ construction = [pc |-> "new"]
  /\ use_llm = FALSE /\ has_llm = FALSE /\ cache = << >> /\ results = << >>
  /\ pc = "idle" /\ run = [no |-> 0, outcome |-> "none"]
  /\ calls = << >> /\ progress = << >>
  /\ rank_st = Idle /\ dedup_st = Idle /\ class_st = Idle /\ kw_st = Idle
  /\ clean_st = Idle /\ qa_st = Idle /\ llm_st = Idle

ComponentsUnchanged ==
  UNCHANGED <<rank_st, dedup_st, class_st, kw_st, clean_st, qavars>>

\* NotesGenerator.__init__
Construct ==
  /\ construction.pc = "new"
  /\ \E arg \in BOOLEAN,
        env \in {"ollama", "groq", "groq_missing", "groq_error"},
        o \in ServiceOutcomes(ProbeBodies) :
       LET raised == arg /\ ConstructorRaises(env)
           probed == arg /\ ~raised
           probe_ok == probed /\ TestConnection(UseGroq(env), o)
       IN /\ construction' = [pc |-> "done", use_llm |-> arg, raised |-> raised,
                              probed |-> probed,
                              use_groq |-> probed /\ UseGroq(env),
                              probe_ok |-> probe_ok]
          /\ use_llm' = UseLLMAfterInit(arg, raised, probe_ok)
          /\ has_llm' = probed
  /\ cache' = << >> /\ results' = << >>
  /\ UNCHANGED <<pc, run, calls, progress>>
  /\ ComponentsUnchanged

\* whether generate_notes can be called
CanStart == construction.pc = "done" /\ pc = "idle" /\ run.no < MaxRuns

\* Step 1: the extraction of the text of a document
Extract ==
  /\ CanStart
  /\ \E ex \in Extractions : run' = NewRun(run.no + 1, ex)
  /\ pc' = "extracted"
  /\ calls' = << >> /\ progress' = << >>
  /\ UNCHANGED <<construction, use_llm, has_llm, cache, results>>
  /\ ComponentsUnchanged

\* the ValueError of line 79
RaiseInsufficientText ==
  /\ pc = "extracted"
  /\ InsufficientText(run.extraction_result.text)
  /\ run' = [run EXCEPT !.outcome = "raised", !.error = "insufficient_text"]
  /\ pc' = "idle"
  /\ UNCHANGED <<construction, use_llm, has_llm, cache, results, calls, progress>>
  /\ ComponentsUnchanged

\* the branch of line 82 taken: the generative path begins
StartGenerative ==
  /\ pc = "extracted"
  /\ ~InsufficientText(run.extraction_result.text)
  /\ use_llm /\ has_llm
  /\ pc' = "pages"
  /\ UNCHANGED <<construction, use_llm, has_llm, cache, results, run, calls,
                 progress>>
  /\ ComponentsUnchanged

\* the branch of line 82 not taken: the rule-based extraction
RuleBasedExtract ==
  /\ pc = "extracted"
  /\ ~InsufficientText(run.extraction_result.text)
  /\ ~(use_llm /\ has_llm)
  /\ run' = [run EXCEPT !.structured_content = RuleStructuredOf[run.extraction_result]]
  /\ pc' = "rest"
  /\ UNCHANGED <<construction, use_llm, has_llm, cache, results, calls, progress>>
  /\ ComponentsUnchanged

\* every page of the document
LLMPagesAll == run.extraction_result.pages
\* the pages the generative path processes: pages_data[:20]
LLMPages == Prefix(run.extraction_result.pages, MaxLLMPages)

\* one turn of the page loop, the page's content in the cache
PageCached ==
  /\ pc = "pages" /\ run.i <= Len(LLMPages)
  /\ LET page_data == LLMPages[run.i]
         cache_key == CacheKey(page_data.text, page_data.page_num)
     IN /\ InCache(cache, cache_key)
        /\ run' = [run EXCEPT
             !.i = @ + 1,
             !.llm_pages_content = Append(@, CacheGet(cache, cache_key))]
  /\ progress' = Append(progress, [stage |-> "page", i |-> run.i, of |-> Len(LLMPages)])
  /\ UNCHANGED <<construction, use_llm, has_llm, cache, results, pc, calls>>
  /\ ComponentsUnchanged

\* one turn of the page loop, with a request to the service that ends in
\* one of the outcomes
PageRequestWith(outcomes) ==
  /\ pc = "pages" /\ run.i <= Len(LLMPages)
  /\ LET page_data == LLMPages[run.i]
         cache_key == CacheKey(page_data.text, page_data.page_num)
     IN /\ ~InCache(cache, cache_key)
        /\ \E o \in outcomes :
             LET response == Generate(construction.use_groq, o)
                 content == ParseResponse(response, page_data.page_num)
             IN /\ cache' = CachePut(cache, cache_key, content)
                /\ calls' = Append(calls, Call("page", run.i, o, response))
                /\ run' = [run EXCEPT
                     !.i = @ + 1,
                     !.llm_pages_content = Append(@, content)]
  /\ progress' = Append(progress, [stage |-> "page", i |-> run.i, of |-> Len(LLMPages)])
  /\ UNCHANGED <<construction, use_llm, has_llm, results, pc>>
  /\ ComponentsUnchanged

PageRequest == PageRequestWith(ServiceOutcomes(PageBodies))

\* Stage 2: synthesize_notes
Synthesize ==
  /\ pc = "pages" /\ run.i > Len(LLMPages)
  /\ \E o \in ServiceOutcomes(SynthesisBodies) :
       LET synthesis == Generate(construction.use_groq, o)
       IN /\ calls' = Append(calls, Call("synthesis", 0, o, synthesis))
          /\ run' = [run EXCEPT !.llm_comprehensive_notes = synthesis]
  /\ progress' = Append(progress, [stage |-> "synthesis", i |-> 0, of |-> 0])
  /\ pc' = "qa"
  /\ UNCHANGED <<construction, use_llm, has_llm, cache, results>>
  /\ ComponentsUnchanged

\* Stage 3: generate_qa, and the structured content of lines 111 to 123
GenerateQA ==
  /\ pc = "qa"
  /\ \E o \in ServiceOutcomes(QABodies) :
       LET response == Generate(construction.use_groq, o)
           llm_qa_pairs == ParseQA(response, NumQuestions)
       IN /\ calls' = Append(calls, Call("qa", 0, o, response))
          /\ run' = [run EXCEPT
               !.structured_content =
                  LLMStructuredContent(run.extraction_result.pages,
                                       run.llm_pages_content,
                                       run.llm_comprehensive_notes, llm_qa_pairs)]
  /\ progress' = Append(progress, [stage |-> "qa", i |-> 0, of |-> 0])
  /\ pc' = "rest"
  /\ UNCHANGED <<construction, use_llm, has_llm, cache, results>>
  /\ ComponentsUnchanged

\* Step 2: the sentences of the text
Preprocess ==
  /\ pc = "rest"
  /\ run' = [run EXCEPT !.sentences = SentencesOf[run.extraction_result]]
  /\ pc' = "preprocessed"
  /\ UNCHANGED <<construction, use_llm, has_llm, cache, results, calls, progress>>
  /\ ComponentsUnchanged

\* a failing call that also discards the stored bundle
RaiseDiscardingResults ==
  /\ pc = "preprocessed"
  /\ Len(run.sentences) < MinDocSentences
  /\ run' = [run EXCEPT !.outcome = "raised", !.error = "not_enough_sentences"]
  /\ pc' = "idle"
  /\ results' = << >>
  /\ UNCHANGED <<construction, use_llm, has_llm, cache, calls, progress>>
  /\ ComponentsUnchanged

\* the ValueError of line 138
RaiseNotEnoughSentences ==
  /\ pc = "preprocessed"
  /\ Len(run.sentences) < MinDocSentences
  /\ run' = [run EXCEPT !.outcome = "raised", !.error = "not_enough_sentences"]
  /\ pc' = "idle"
  /\ UNCHANGED <<construction, use_llm, has_llm, cache, results, calls, progress>>
  /\ ComponentsUnchanged

\* Steps 3 to 7, the bundle, and the return
Complete ==
  /\ pc = "preprocessed"
  /\ Len(run.sentences) >= MinDocSentences
  /\ \E scores \in ScoreVectors(Len(run.sentences)),
        keyword_results \in KeywordMethodResults,
        candidates \in IF use_llm /\ has_llm
                          /\ "qa_pairs" \in DOMAIN run.structured_content
                       THEN {<< >>} ELSE QACandidateLists :
       /\ results' = Bundle(run.no, use_llm, has_llm, run.extraction_result,
                            run.structured_content, run.sentences, scores,
                            keyword_results, candidates)
       /\ run' = [run EXCEPT !.outcome = "returned",
                             !.scores = scores,
                             !.keyword_results = keyword_results,
                             !.candidates = candidates]
  /\ pc' = "idle"
  /\ UNCHANGED <<construction, use_llm, has_llm, cache, calls, progress>>
  /\ ComponentsUnchanged

Next ==
  \/ Construct
  \/ Extract
  \/ RaiseInsufficientText
  \/ StartGenerative
  \/ RuleBasedExtract
  \/ PageCached
  \/ PageRequest
  \/ Synthesize
  \/ GenerateQA
  \/ Preprocess
  \/ RaiseNotEnoughSentences
  \/ Complete

Spec == Init /\ [][Next]_vars


(***************************************************************************)
(* Properties of NotesGenerator.                                           *)
(***************************************************************************)
\* a generate_notes call has ended, by a return or by an exception
CallEnded == run.no > 0 /\ pc = "idle"

\* self.results is the bundle of the call that `run` describes
BundleOfRun == results # << >> /\ results.metadata.generated_at = run.no

\* the document of the call passes the word check and the sentence check
EnoughContent ==
  /\ Len(SplitWS(run.extraction_result.text)) >= 10
  /\ Len(SentencesOf[run.extraction_result]) >= 2

\* the instance was asked to use the generative backend and the probe of
\* __init__ failed, or LLMSummarizer() raised
ProbeFailedAtInit ==
  /\ construction.pc = "done" /\ construction.use_llm
  /\ construction.raised \/ ~construction.probe_ok

\* C1: when the connectivity probe made at construction fails, or building
\* the LLMSummarizer raises, no generate_notes call on the instance makes a
\* request to the generative service or enters the generative path, and a
\* call for a document with enough content returns a bundle whose structured
\* data is that of the rule-based extractor and whose ai_generated is false.
C1_FallbackIsRuleBased ==
  ProbeFailedAtInit =>
    /\ calls = << >>
    /\ pc \notin {"pages", "qa"}
    /\ (CallEnded /\ EnoughContent) =>
         /\ run.outcome = "returned"
         /\ BundleOfRun
         /\ results.structured_data = RuleStructuredOf[run.extraction_result]
         /\ results.metadata.ai_generated = FALSE

\* a second call has returned a bundle on an instance whose probe failed
C1_Witness ==
  /\ ProbeFailedAtInit /\ ~construction.raised
  /\ CallEnded /\ run.no = 2 /\ run.outcome = "returned"
  /\ results.metadata.ai_generated = FALSE
  /\ results.metadata.points_extracted > 0

\* C2: once the check of the extracted text is past, the call has failed
\* with the insufficient-content error exactly when the text has fewer than
\* 10 whitespace-separated words, and a call that failed so has raised and
\* left no bundle of its own.
C2_InsufficientIffUnderTenWords ==
  (run.no > 0 /\ pc # "extracted") =>
    /\ (run.error = "insufficient_text")
         <=> (Len(SplitWS(run.extraction_result.text)) < 10)
    /\ (run.error = "insufficient_text")
         => (run.outcome = "raised" /\ ~BundleOfRun)

\* a call on a text of nine words has failed, after a call that returned
C2_Witness ==
  /\ CallEnded /\ run.no = 2
  /\ run.error = "insufficient_text"
  /\ Len(SplitWS(run.extraction_result.text)) = 9
  /\ results # << >>

\* a page's content holds no item in any of its four sections
ZeroItems(content) ==
  /\ content.definitions = << >> /\ content.concepts = << >>
  /\ content.procedures = << >> /\ content.important_points = << >>

\* C3: after a successful probe, every request of a call that failed
\* (connection error, timeout, status other than 200, malformed body) gave
\* the empty string; if it was the request of a page, that page has zero
\* items in all four sections; and the call, for a document with enough
\* content, still returns a bundle of the generative path.
C3_FailedRequestGivesEmpty ==
  (construction.pc = "done" /\ construction.probe_ok) =>
    /\ \A k \in 1..Len(calls) :
         calls[k].failed =>
           /\ calls[k].response = << >>
           /\ (calls[k].phase = "page")
                => ZeroItems(run.llm_pages_content[calls[k].i])
    /\ (CallEnded /\ EnoughContent) =>
         /\ run.outcome = "returned"
         /\ BundleOfRun
         /\ results.metadata.ai_generated = TRUE

\* a call has returned a bundle although the request of its second page,
\* the synthesis request and the question request all failed
C3_Witness ==
  /\ construction.pc = "done" /\ construction.probe_ok
  /\ CallEnded /\ run.outcome = "returned" /\ BundleOfRun
  /\ \E k \in 1..Len(calls) :
       calls[k].failed /\ calls[k].phase = "page" /\ calls[k].i = 2
  /\ \E k \in 1..Len(calls) : calls[k].failed /\ calls[k].phase = "synthesis"
  /\ \E k \in 1..Len(calls) : calls[k].failed /\ calls[k].phase = "qa"

\* C4: in a returned bundle no two entries of qa_pairs have the same
\* question text, compared without regard to case.
C4_NoRepeatedQuestion ==
  (CallEnded /\ run.outcome = "returned") =>
    \A i, j \in 1..Len(results.qa_pairs) :
      i # j => Lower(results.qa_pairs[i].question)
               # Lower(results.qa_pairs[j].question)

\* the sections of the bundle as the rule-based steps make them from the
\* sentences, scores and keyword results of the call
RuleBasedSummary == RuleSummary(GenerateSummary(run.sentences, run.scores))
RuleBasedKeyPoints == GenerateKeyPoints(run.sentences, run.scores, 50)
RuleBasedKeywords == KeywordsEntry(ExtractKeywords(run.keyword_results, 30))

\* C10 as stated: in a returned bundle the summary, key_points and keywords
\* sections are the outputs of the rule-based steps over the full document,
\* whichever backend produced the structured content.
C10_SectionsAreRuleBased ==
  (CallEnded /\ run.outcome = "returned") =>
    /\ results.summary = RuleBasedSummary
    /\ results.key_points = RuleBasedKeyPoints
    /\ results.keywords = RuleBasedKeywords

\* C10 amended: in a returned bundle key_points and keywords are the outputs
\* of the rule-based steps whichever backend produced the structured
\* content; the summary is the rule-based one when the instance does not use
\* the generative backend, and otherwise its text is the synthesis of the
\* generative backend, with no sentences and the ratio "AI Generated".
C10_SummaryFollowsMode ==
  (CallEnded /\ run.outcome = "returned") =>
    /\ results.key_points = RuleBasedKeyPoints
    /\ results.keywords = RuleBasedKeywords
    /\ ~use_llm => results.summary = RuleBasedSummary
    /\ use_llm =>
         /\ results.metadata.ai_generated = TRUE
         /\ results.summary.text = run.structured_content.synthesis
         /\ results.summary.sentences = << >>
         /\ results.summary.compression_ratio.label = "AI Generated"

\* a bundle of the generative path whose summary is the synthesis, not the
\* rule-based summary, and whose key points and keywords are there
C10_Witness ==
  /\ CallEnded /\ run.outcome = "returned" /\ use_llm
  /\ results.summary.text = RESP_overview
  /\ results.summary.text # RuleBasedSummary.text
  /\ results.key_points # << >> /\ results.keywords # << >>


(***************************************************************************)
(* process_pdf (app.py): the caller of generate_notes in the application.  *)
(* It builds a NotesGenerator with its progress callback, announces the    *)
(* extraction, calls generate_notes once and announces the completion.     *)
(* `progress` holds every message the callback receives.  The instance is  *)
(* new in each process_pdf, so no page is found in the cache.              *)
(***************************************************************************)
\* the message of line 650 and the message of line 664
MsgExtracting == [stage |-> "extracting", i |-> 0, of |-> 0]
MsgComplete == [stage |-> "complete", i |-> 0, of |-> 0]

\* progress_callback("Extracting Text from PDF...") (line 650)
AppAnnounce ==
  /\ construction.pc = "done" /\ pc = "idle" /\ run.no = 0
  /\ pc' = "announced"
  /\ progress' = Append(progress, MsgExtracting)
  /\ UNCHANGED <<construction, use_llm, has_llm, cache, results, run, calls>>
  /\ ComponentsUnchanged

\* the call of line 654 and Step 1 of generate_notes
AppExtract ==
  /\ pc = "announced"
  /\ \E ex \in Extractions : run' = NewRun(run.no + 1, ex)
  /\ pc' = "extracted"
  /\ calls' = << >>
  /\ UNCHANGED <<construction, use_llm, has_llm, cache, results, progress>>
  /\ ComponentsUnchanged

\* generate_notes has returned: progress_callback("Generation Complete!")
AppComplete ==
  /\ pc = "idle" /\ run.no > 0 /\ run.outcome = "returned"
  /\ pc' = "finished"
  /\ progress' = Append(progress, MsgComplete)
  /\ UNCHANGED <<construction, use_llm, has_llm, cache, results, run, calls>>
  /\ ComponentsUnchanged

\* generate_notes has raised: the handler of lines 676 to 680 reports the
\* error and process_pdf returns False
AppFailAnnouncingCompletion ==
  /\ pc = "idle" /\ run.no > 0 /\ run.outcome = "raised"
  /\ pc' = "failed"
  /\ progress' = Append(progress, MsgComplete)
  /\ UNCHANGED <<construction, use_llm, has_llm, cache, results, run, calls>>
  /\ ComponentsUnchanged
AppFail ==
  /\ pc = "idle" /\ run.no > 0 /\ run.outcome = "raised"
  /\ pc' = "failed"
  /\ UNCHANGED <<construction, use_llm, has_llm, cache, results, run, calls,
                 progress>>
  /\ ComponentsUnchanged

NextApp ==
  \/ Construct
  \/ AppAnnounce
  \/ AppExtract
  \/ RaiseInsufficientText
  \/ StartGenerative
  \/ RuleBasedExtract
  \/ PageRequest
  \/ Synthesize
  \/ GenerateQA
  \/ Preprocess
  \/ RaiseNotEnoughSentences
  \/ Complete
  \/ AppComplete
  \/ AppFail

SpecApp == Init /\ [][NextApp]_vars

\* the messages of the page loop for pages 1 to k of n
PageMessages(k, n) == [p \in 1..k |-> [stage |-> "page", i |-> p, of |-> n]]

\* the generative path of the call has passed synthesis, has passed the
\* question request
InGenerativePath == pc \in {"pages", "qa"} \/ "llm_generated" \in DOMAIN run.structured_content
PastSynthesis == pc = "qa" \/ "llm_generated" \in DOMAIN run.structured_content
PastQA == "llm_generated" \in DOMAIN run.structured_content

\* the messages generate_notes itself has passed to the callback, as its
\* code orders them: none outside the generative path
OwnMessages ==
  IF run.no = 0 \/ ~InGenerativePath THEN << >>
  ELSE PageMessages(IF pc = "pages" THEN run.i - 1 ELSE Len(LLMPages), Len(LLMPages))
       \o (IF PastSynthesis THEN <<[stage |-> "synthesis", i |-> 0, of |-> 0]>> ELSE << >>)
       \o (IF PastQA THEN <<[stage |-> "qa", i |-> 0, of |-> 0]>> ELSE << >>)

MaxKeywordQuestions == 10

\* the words a sentence must have for _generate_transform_questions
MinTransformWords == 5
MaxTransformWords == 30

\* str.title(): a letter that follows a letter is lowered, another raised
Title(s) ==
  [i \in 1..Len(s) |->
     IF i > 1 /\ (IsLower(s[i - 1]) \/ IsUpper(s[i - 1]))
     THEN LowerChar(s[i]) ELSE UpperChar(s[i])]

\* s.split(sep) for a separator of several characters
RECURSIVE SplitOnStr(_, _)
SplitOnStr(s, sep) ==
  LET i == Find(s, sep)
  IN IF i = -1 THEN <<s>>
     ELSE <<Slice(s, 0, i)>> \o SplitOnStr(Slice(s, i + Len(sep), Len(s)), sep)

\* self.question_templates['definition']: what stands before and after {term}
definition_templates ==
  <<[pre |-> <<"W","h","a","t"," ","i","s"," ">>, post |-> <<"?">>],
    [pre |-> <<"D","e","f","i","n","e"," ">>, post |-> <<".">>],
    [pre |-> <<"E","x","p","l","a","i","n"," ">>, post |-> <<".">>],
    [pre |-> <<"W","h","a","t"," ","d","o"," ","y","o","u"," ","m","e","a",
        "n"," ","b","y"," ">>, post |-> <<"?">>]>>

\* template.format(term=keyword.title())
FormatTemplate(template, keyword) ==
  template.pre \o Title(keyword) \o template.post

\* QAGenerator._find_sentence_with_keyword, with the sentence found lowered
RECURSIVE FindSentenceLowered(_, _)
FindSentenceLowered(keyword, sentences) ==
  IF sentences = << >> THEN << >>
  ELSE IF Contains(Lower(Head(sentences)), Lower(keyword))
       THEN Lower(Head(sentences))
       ELSE FindSentenceLowered(keyword, Tail(sentences))

\* QAGenerator._find_sentence_with_keyword
RECURSIVE FindSentenceWithKeyword(_, _)
FindSentenceWithKeyword(keyword, sentences) ==
  IF sentences = << >> THEN << >>
  ELSE IF Contains(Lower(Head(sentences)), Lower(keyword))
       THEN Head(sentences)
       ELSE FindSentenceWithKeyword(keyword, Tail(sentences))

\* QAGenerator._generate_keyword_questions: choice[i] is the template that
\* random.choice picks for the i-th keyword
RECURSIVE KeywordQuestionsFrom(_, _, _, _)
KeywordQuestionsFrom(keywords, sentences, choice, i) ==
  IF i > Min(Len(keywords), MaxKeywordQuestions) THEN << >>
  ELSE LET answer_sent == FindSentenceWithKeyword(keywords[i].keyword, sentences)
       IN (IF answer_sent # << >>
           THEN <<[question |-> FormatTemplate(definition_templates[choice[i]],
                                               keywords[i].keyword),
                   answer |-> answer_sent]>>
           ELSE << >>)
          \o KeywordQuestionsFrom(keywords, sentences, choice, i + 1)

GenerateKeywordQuestions(keywords, sentences, choice) ==
  KeywordQuestionsFrom(keywords, sentences, choice, 1)

\* whether s[from+1..to] is a run of at least one whitespace character
IsSpaceRun(s, from, to) ==
  from < to /\ to <= Len(s) /\ \A i \in (from + 1)..to : IsSpace(s[i])

\* whether (.+?)\. matches from position from + 1 on: a full stop after at
\* least one character, none of them a line break
HasRestAndStop(s, from) ==
  \E d \in (from + 2)..Len(s) :
       s[d] = "." /\ \A i \in (from + 1)..(d - 1) : s[i] # "\n"

\* whether \s+verb\s+(.+?)\. matches after the first k characters
VerbFollows(s, k, verb) ==
  \E a \in (k + 1)..Len(s) :
     /\ IsSpaceRun(s, k, a)
     /\ Slice(s, a, a + Len(verb)) = verb
     /\ \E e \in (a + Len(verb) + 1)..Len(s) :
           IsSpaceRun(s, a + Len(verb), e) /\ HasRestAndStop(s, e)

\* group 1 of re.match(r'^([A-Z][a-z\s]+)\s+verb\s+(.+?)\.', sentence) for
\* the spellings of the verb, the empty string when there is no match
PatternSubject(sentence, verbs) ==
  LET ends == {k \in 2..Len(sentence) :
                 /\ IsUpper(sentence[1])
                 /\ \A i \in 2..k : IsLower(sentence[i]) \/ IsSpace(sentence[i])
                 /\ \E verb \in verbs : VerbFollows(sentence, k, verb)}
  IN IF ends = {} THEN << >>
     ELSE Slice(sentence, 0, CHOOSE k \in ends : \A j \in ends : j <= k)

\* the question of a pattern, if the sentence matches it
PatternQuestion(sentence, verbs, pre, post) ==
  LET subject == PatternSubject(sentence, verbs)
  IN IF subject = << >> THEN << >>
     ELSE <<[question |-> pre \o subject \o post, answer |-> sentence]>>

\* the question of a sentence with 'because', if it has the word once
BecauseQuestion(sentence) ==
  LET parts == SplitOnStr(sentence, <<"b","e","c","a","u","s","e">>)
  IN IF Contains(Lower(sentence), <<"b","e","c","a","u","s",
      "e">>) /\ Len(parts) = 2
     THEN <<[question |-> <<"W","h","y",
         " ">> \o Lower(Strip(parts[1])) \o <<"?">>,
             answer |-> sentence]>>
     ELSE << >>

\* QAGenerator._generate_pattern_questions
RECURSIVE GeneratePatternQuestions(_)
GeneratePatternQuestions(sentences) ==
  IF sentences = << >> THEN << >>
  ELSE PatternQuestion(Head(sentences), {<<"i","s">>}, <<"W","h","a","t",
      " ","i","s"," ">>, <<"?">>)
       \o PatternQuestion(Head(sentences), {<<"c","a","n">>}, <<"W","h","a",
           "t"," ","c","a","n"," ">>, <<" ","d","o","?">>)
       \o PatternQuestion(Head(sentences), {<<"h","e","l","p">>, <<"h","e",
           "l","p","s">>},
                          <<"H","o","w"," ","d","o","e","s"," ">>, <<" ",
                              "h","e","l","p","?">>)
       \o BecauseQuestion(Head(sentences))
       \o GeneratePatternQuestions(Tail(sentences))

\* QAGenerator._basic_transform
BasicTransform(sentence) ==
  IF \E i \in 1..Len(sentence) : IsDigit(sentence[i])
  THEN <<[question |-> <<"W","h","a","t"," ","i","s"," ","m","e","n","t",
      "i","o","n","e","d"," ","a","b","o","u","t"," ">>
                       \o SplitWS(sentence)[1] \o <<"?">>,
          answer |-> sentence]>>
  ELSE << >>

\* QAGenerator._spacy_transform: found tells whether spaCy finds a root
\* verb and a subject, which are two of the words of the sentence here
SpacyTransform(sentence, found) ==
  IF found
  THEN <<[question |-> <<"W","h","a","t",
      " ">> \o Lower(SplitWS(sentence)[2]) \o <<" ">>
                       \o SplitWS(sentence)[1] \o <<"?">>,
          answer |-> sentence]>>
  ELSE << >>

\* QAGenerator._generate_transform_questions: spacy tells whether spaCy and
\* its model are loaded, found[i] what it finds in the i-th sentence
RECURSIVE TransformQuestionsFrom(_, _, _, _)
TransformQuestionsFrom(sentences, spacy, found, i) ==
  IF i > Len(sentences) THEN << >>
  ELSE LET word_count == Len(SplitWS(sentences[i]))
       IN (IF word_count < MinTransformWords \/ word_count > MaxTransformWords
           THEN << >>
           ELSE IF spacy THEN SpacyTransform(sentences[i], found[i])
           ELSE BasicTransform(sentences[i]))
          \o TransformQuestionsFrom(sentences, spacy, found, i + 1)

GenerateTransformQuestions(sentences, spacy, found) ==
  TransformQuestionsFrom(sentences, spacy, found, 1)

\* 'Osmosis is the movement of water.'
SENT_osmosis_is == <<"O","s","m","o","s","i","s"," ","i","s"," ","t","h",
    "e"," ","m","o","v","e","m","e","n","t"," ","o","f"," ","w","a","t","e",
        "r",".">>
\* 'Cells shrink because water leaves.'
SENT_because == <<"C","e","l","l","s"," ","s","h","r","i","n","k"," ","b",
    "e","c","a","u","s","e"," ","w","a","t","e","r"," ","l","e","a","v","e",
        "s",".">>
\* 'Water boils at 100 degrees here.'
SENT_boils == <<"W","a","t","e","r"," ","b","o","i","l","s"," ","a","t"," ",
    "1","0","0"," ","d","e","g","r","e","e","s"," ","h","e","r","e",".">>
\* 'Plants can grow.'
SENT_can == <<"P","l","a","n","t","s"," ","c","a","n"," ","g","r","o","w",
    ".">>
\* 'Light helps plants grow well.'
SENT_helps == <<"L","i","g","h","t"," ","h","e","l","p","s"," ","p","l","a",
    "n","t","s"," ","g","r","o","w"," ","w","e","l","l",".">>
KW_osmosis == <<"o","s","m","o","s","i","s">>
KW_water == <<"w","a","t","e","r">>
KW_enzyme == <<"e","n","z","y","m","e">>

\* the sentences and the keywords generate_questions is given
QASentences == {SENT_osmosis_is, SENT_because, SENT_boils, SENT_can, SENT_helps}
QAKeywords == {KW_osmosis, KW_water, KW_enzyme}

\* the most sentences and the most keywords of a call
MaxQASentences == 2
MaxQAKeywords == 2

\* 'Photosynthesis is the process by which plants convert light into energy.
\* Chlorophyll absorbs sunlight. Step 1: expose the plant to light.'
TXT_photosynthesis_page ==
  <<"P","h","o","t","o","s","y","n","t","h","e","s","i","s"," ","i","s"," ",
    "t","h","e"," ","p","r","o","c","e","s","s"," ","b","y"," ","w","h","i",
    "c","h"," ","p","l","a","n","t","s"," ","c","o","n","v","e","r","t"," ",
    "l","i","g","h","t"," ","i","n","t","o"," ","e","n","e","r","g","y",".",
    " ","C","h","l","o","r","o","p","h","y","l","l"," ","a","b","s","o","r",
    "b","s"," ","s","u","n","l","i","g","h","t","."," ","S","t","e","p"," ",
    "1",":"," ","e","x","p","o","s","e"," ","t","h","e"," ","p","l","a","n",
    "t"," ","t","o"," ","l","i","g","h","t",".">>

\* the document whose only page is made of these three sentences
PhotosynthesisPages == <<[page_num |-> 1, text |-> TXT_photosynthesis_page]>>

\* a page of six definitions, six procedures, six concepts and eleven other
\* sentences: 'Ant is a small insect. Oak is a kind of tree. ...'
TXT_full_page ==
  <<"A","n","t"," ","i","s"," ","a"," ","s","m","a","l","l"," ","i","n","s",
    "e","c","t","."," ","O","a","k"," ","i","s"," ","a"," ","k","i","n","d",
    " ","o","f"," ","t","r","e","e","."," ","G","o","l","d"," ","i","s"," ",
    "a"," ","y","e","l","l","o","w"," ","m","e","t","a","l","."," ","M","a",
    "r","s"," ","i","s"," ","t","h","e"," ","r","e","d"," ","p","l","a","n",
    "e","t","."," ","I","r","o","n"," ","i","s"," ","a"," ","s","t","r","o",
    "n","g"," ","m","e","t","a","l","."," ","R","a","i","n"," ","i","s"," ",
    "w","a","t","e","r"," ","f","r","o","m"," ","s","k","y","."," ","T","h",
    "e","n"," ","s","t","i","r"," ","t","h","e"," ","h","o","t"," ","s","o",
    "u","p","."," ","N","e","x","t"," ","b","o","i","l"," ","t","h","e"," ",
    "c","o","l","d"," ","m","i","l","k","."," ","F","i","r","s","t"," ","w",
    "a","s","h"," ","b","o","t","h"," ","h","a","n","d","s"," ","w","e","l",
    "l","."," ","F","i","n","a","l","l","y"," ","d","r","y"," ","e","a","c",
    "h"," ","c","l","e","a","n"," ","d","i","s","h","."," ","T","h","e","n",
    " ","f","o","l","d"," ","p","a","p","e","r"," ","t","w","i","c","e"," ",
    "o","v","e","r","."," ","N","e","x","t"," ","o","p","e","n"," ","e","v",
    "e","r","y"," ","s","m","a","l","l"," ","w","i","n","d","o","w","."," ",
    "S","u","n","s","h","i","n","e"," ","p","r","o","v","i","d","e","s"," ",
    "w","a","r","m"," ","l","i","g","h","t","."," ","Y","e","a","s","t"," ",
    "a","l","l","o","w","s"," ","b","r","e","a","d"," ","t","o"," ","r","i",
    "s","e","."," ","S","l","e","e","p"," ","e","n","s","u","r","e","s"," ",
    "g","o","o","d"," ","h","e","a","l","t","h","."," ","W","i","n","g","s",
    " ","e","n","a","b","l","e"," ","b","i","r","d","s"," ","t","o"," ","f",
    "l","y","."," ","R","o","o","t","s"," ","b","e","n","e","f","i","t"," ",
    "f","r","o","m"," ","r","i","c","h"," ","s","o","i","l","."," ","T","r",
    "a","d","e"," ","t","h","e","o","r","y"," ","e","x","p","l","a","i","n",
    "s"," ","p","r","i","c","e","s","."," ","C","a","t","s"," ","c","h","a",
    "s","e"," ","m","i","c","e"," ","a","t"," ","n","i","g","h","t","."," ",
    "D","o","g","s"," ","b","a","r","k"," ","l","o","u","d","l","y"," ","a",
    "t"," ","s","t","r","a","n","g","e","r","s","."," ","B","i","r","d","s",
    " ","s","i","n","g"," ","e","a","r","l","y"," ","e","v","e","r","y"," ",
    "m","o","r","n","i","n","g","."," ","F","i","s","h"," ","s","w","i","m",
    " ","d","e","e","p"," ","u","n","d","e","r"," ","w","a","t","e","r",".",
    " ","K","i","d","s"," ","p","l","a","y"," ","g","a","m","e","s"," ","a",
    "f","t","e","r"," ","s","c","h","o","o","l","."," ","S","h","i","p","s",
    " ","c","r","o","s","s"," ","w","i","d","e"," ","b","l","u","e"," ","o",
    "c","e","a","n","s","."," ","F","a","r","m","e","r","s"," ","g","r","o",
    "w"," ","w","h","e","a","t"," ","e","v","e","r","y"," ","y","e","a","r",
    "."," ","C","l","o","u","d","s"," ","b","r","i","n","g"," ","h","e","a",
    "v","y"," ","s","u","m","m","e","r"," ","s","t","o","r","m","s","."," ",
    "R","i","v","e","r","s"," ","c","a","r","r","y"," ","s","a","n","d"," ",
    "d","o","w","n"," ","h","i","l","l","s","."," ","B","e","a","r","s"," ",
    "e","a","t"," ","b","e","r","r","i","e","s"," ","d","u","r","i","n","g",
    " ","a","u","t","u","m","n","."," ","T","r","a","i","n","s"," ","m","o",
    "v","e"," ","p","e","o","p","l","e"," ","b","e","t","w","e","e","n"," ",
    "t","o","w","n","s","."
                                                                          >>

\* the document of this page and a second one
FullPages ==
  <<[page_num |-> 1, text |-> TXT_full_page],
    [page_num |-> 2, text |-> PageOf(<<SENT_concept, SENT_noise>>)]>>


\* the pages of the documents the extractor is given
RulePages ==
  {<<[page_num |-> 1, text |-> PageOf(<<SENT_def_first, SENT_proc>>)],
     [page_num |-> 2, text |-> PageOf(<<SENT_concept, SENT_short>>)]>>,
   <<[page_num |-> 2, text |-> PageOf(<<SENT_term, SENT_noise>>)],
     [page_num |-> 4, text |-> PageOf(<<SENT_content, SENT_def_first>>)]>>,
   PhotosynthesisPages,
   FullPages}

\* the call extract_structured_content(pdf_pages), before it runs
InitRule ==
  /\ construction = Idle
  /\ use_llm = FALSE /\ has_llm = FALSE /\ cache = << >> /\ results = << >>
  /\ pc = "idle" /\ run = << >> /\ calls = << >> /\ progress = << >>
  /\ rank_st = Idle /\ dedup_st = Idle /\ class_st = Idle /\ kw_st = Idle
  /\ clean_st = Idle /\ llm_st = Idle
  /\ \E pdf_pages \in RulePages :
       qa_st = [pc |-> "start", pdf_pages |-> pdf_pages,
                page_contents |-> << >>, structured_content |-> << >>,
                sentences |-> << >>, keywords |-> << >>, num_questions |-> 0,
                qa_pairs |-> << >>, returned |-> << >>]

RuleOthersUnchanged ==
  UNCHANGED <<ngvars, llm_st, rank_st, dedup_st, class_st, kw_st, clean_st>>

\* the page_content of every page in the loop of extract_structured_content
PageContents(pdf_pages) ==
  [k \in 1..Len(pdf_pages) |->
     ExtractPageContent(pdf_pages[k].text, pdf_pages[k].page_num)]

\* extract_structured_content(pdf_pages)
RuleExtractPoints ==
  /\ qa_st.pc = "start"
  /\ qa_st' = [qa_st EXCEPT !.pc = "extracted",
                 !.page_contents = PageContents(qa_st.pdf_pages),
                 !.structured_content = ExtractStructuredContent(qa_st.pdf_pages)]
  /\ RuleOthersUnchanged

\* the call generate_questions(sentences, keywords, num_questions): the
\* sentences are distinct (TextPreprocessor drops repeated ones) and so are
\* the keywords (the keys of a dictionary)
CallGenerateQuestions ==
  /\ qa_st.pc = "extracted"
  /\ \E n \in 1..MaxQASentences, num_questions \in {2, NumQuestions} :
       \E sentences \in [1..n -> QASentences],
          keywords \in SeqsUpTo(QAKeywords, MaxQAKeywords) :
          /\ NoRepeat(sentences) /\ NoRepeat(keywords)
          /\ qa_st' = [qa_st EXCEPT !.pc = "called",
                         !.sentences = sentences,
                         !.keywords = [i \in 1..Len(keywords) |->
                                         [keyword |-> keywords[i], score |-> 1]],
                         !.num_questions = num_questions]
  /\ RuleOthersUnchanged

\* Method 1 of generate_questions
KeywordQuestions ==
  /\ qa_st.pc = "called"
  /\ \E choice \in [1..Len(qa_st.keywords) -> 1..Len(definition_templates)] :
       qa_st' = [qa_st EXCEPT !.pc = "keyword",
                   !.qa_pairs = GenerateKeywordQuestions(qa_st.keywords,
                                                         qa_st.sentences, choice)]
  /\ RuleOthersUnchanged

\* Method 2 of generate_questions
PatternQuestions ==
  /\ qa_st.pc = "keyword"
  /\ qa_st' = [qa_st EXCEPT !.pc = "pattern",
                 !.qa_pairs = @ \o GeneratePatternQuestions(qa_st.sentences)]
  /\ RuleOthersUnchanged

\* Method 3 of generate_questions
TransformQuestions ==
  /\ qa_st.pc = "pattern"
  /\ \E spacy \in BOOLEAN, found \in [1..Len(qa_st.sentences) -> BOOLEAN] :
       /\ spacy \/ \A i \in 1..Len(found) : ~found[i]
       /\ qa_st' = [qa_st EXCEPT !.pc = "transform",
                      !.qa_pairs = @ \o GenerateTransformQuestions(
                                          qa_st.sentences, spacy, found)]
  /\ RuleOthersUnchanged

\* _deduplicate_questions, the cut to num_questions and the return
ReturnQuestions ==
  /\ qa_st.pc = "transform"
  /\ qa_st' = [qa_st EXCEPT !.pc = "returned",
                 !.returned = GenerateQuestions(qa_st.qa_pairs,
                                                qa_st.num_questions)]
  /\ RuleOthersUnchanged

NextRule ==
  \/ RuleExtractPoints
  \/ CallGenerateQuestions
  \/ KeywordQuestions
  \/ PatternQuestions
  \/ TransformQuestions
  \/ ReturnQuestions

SpecRule == InitRule /\ [][NextRule]_vars

\* whether a sequence has the element
InSeq(x, seq) == \E i \in 1..Len(seq) : seq[i] = x

\* the sentences each page splits into
PageSentences(pdf_pages) ==
  [k \in 1..Len(pdf_pages) |-> SplitIntoSentences(pdf_pages[k].text)]

\* whether the text of every point is a sentence of the page it names
PointsFromTheirPages(points, pdf_pages) ==
  \A split \in {PageSentences(pdf_pages)} :
     \A i \in 1..Len(points) :
        \E k \in 1..Len(pdf_pages) :
           /\ pdf_pages[k].page_num = points[i].page
           /\ InSeq(points[i].text, split[k])

\* C12: in the rule-based path the text of every content point is one of
\* the sentences that the text of the page with the point's number splits
\* into, and every pair that generate_questions returns has a non-empty
\* answer that is, character for character, one of the sentences given
C12_NothingFabricated ==
  /\ qa_st.pc = "extracted" =>
       PointsFromTheirPages(qa_st.structured_content.all_points, qa_st.pdf_pages)
  /\ qa_st.pc = "returned" =>
       \A i \in 1..Len(qa_st.returned) :
          /\ qa_st.returned[i].answer # << >>
          /\ InSeq(qa_st.returned[i].answer, qa_st.sentences)

\* a call that returns a keyword question and a pattern question beside the
\* points of two pages
C12_Witness ==
  /\ qa_st.pc = "returned"
  /\ Len(qa_st.returned) >= 2
  /\ \E i \in 1..Len(qa_st.returned) :
        StartsWith(qa_st.returned[i].question, <<"D","e","f","i","n","e",
            " ">>)
  /\ \E i \in 1..Len(qa_st.returned) :
        StartsWith(qa_st.returned[i].question, <<"W","h","y"," ">>)
  /\ \E i, j \in 1..Len(qa_st.structured_content.all_points) :
        qa_st.structured_content.all_points[i].page
          # qa_st.structured_content.all_points[j].page


\* how many points of a list are of one of the types
CountOfType(points, types) ==
  Cardinality({i \in 1..Len(points) : points[i].type \in types})

\* C13: the page made of the sentences 'Photosynthesis is the process by
\* which plants convert light into energy.', 'Chlorophyll absorbs sunlight.'
\* and 'Step 1: expose the plant to light.' yields exactly three points: one
\* definition, one concept or content, and one procedure
C13_ThreePointsOfThreeSentences ==
  qa_st.pc \notin {"idle", "start"} /\ qa_st.pdf_pages = PhotosynthesisPages =>
     /\ Len(qa_st.structured_content.all_points) = 3
     /\ CountOfType(qa_st.structured_content.all_points, {"definition"}) = 1
     /\ CountOfType(qa_st.structured_content.all_points,
                    {"concept", "content"}) = 1
     /\ CountOfType(qa_st.structured_content.all_points, {"procedure"}) = 1


\* the sum of the numbers of points of the pages
RECURSIVE SumOfPoints(_)
SumOfPoints(page_contents) ==
  IF page_contents = << >> THEN 0
  ELSE Len(Head(page_contents).points) + SumOfPoints(Tail(page_contents))

\* C14: the points of every page that the rule-based extractor processes
\* hold at most 5 definitions, at most 5 concepts, at most 5 procedures and
\* at most 10 points of type content, and total_points is the sum of the
\* numbers of points of the pages
C14_CapsAndTotal ==
  qa_st.pc \notin {"idle", "start"} =>
     /\ \A k \in 1..Len(qa_st.page_contents) :
           /\ CountOfType(qa_st.page_contents[k].points, {"definition"})
                <= MaxPerCategory
           /\ CountOfType(qa_st.page_contents[k].points, {"concept"})
                <= MaxPerCategory
           /\ CountOfType(qa_st.page_contents[k].points, {"procedure"})
                <= MaxPerCategory
           /\ CountOfType(qa_st.page_contents[k].points, {"content"})
                <= MaxGeneralPoints
     /\ qa_st.structured_content.total_points = SumOfPoints(qa_st.page_contents)

\* a page with more sentences of every category than its points may hold,
\* in a document whose second page has points too
C14_Witness ==
  /\ qa_st.pc = "extracted"
  /\ Len(qa_st.page_contents) = 2
  /\ Len(qa_st.page_contents[1].definitions) > MaxPerCategory
  /\ Len(qa_st.page_contents[1].concepts) > MaxPerCategory
  /\ Len(qa_st.page_contents[1].procedures) > MaxPerCategory
  /\ Len(qa_st.page_contents[1].points) = 3 * MaxPerCategory + MaxGeneralPoints
  /\ qa_st.page_contents[2].points # << >>
  /\ qa_st.structured_content.total_points > Len(qa_st.page_contents[1].points)


(***************************************************************************)
(* LLMSummarizer.extract_page_content called again and again on one        *)
(* instance: the cache of page contents.                                   *)
(***************************************************************************)
\* 'Osmosis is the movement of water across a membrane from a region of low
\* solute concentration to one of high solute concentration.'
TXT_long_high ==
  <<"O","s","m","o","s","i","s"," ","i","s"," ","t","h","e"," ","m","o","v",
    "e","m","e","n","t"," ","o","f"," ","w","a","t","e","r"," ","a","c","r",
    "o","s","s"," ","a"," ","m","e","m","b","r","a","n","e"," ","f","r","o",
    "m"," ","a"," ","r","e","g","i","o","n"," ","o","f"," ","l","o","w"," ",
    "s","o","l","u","t","e"," ","c","o","n","c","e","n","t","r","a","t","i",
    "o","n"," ","t","o"," ","o","n","e"," ","o","f"," ","h","i","g","h"," ",
    "s","o","l","u","t","e"," ","c","o","n","c","e","n","t","r","a","t","i",
    "o","n",".">>
\* the same first 100 characters, then 'that is saltier.'
TXT_long_saltier ==
  <<"O","s","m","o","s","i","s"," ","i","s"," ","t","h","e"," ","m","o","v",
    "e","m","e","n","t"," ","o","f"," ","w","a","t","e","r"," ","a","c","r",
    "o","s","s"," ","a"," ","m","e","m","b","r","a","n","e"," ","f","r","o",
    "m"," ","a"," ","r","e","g","i","o","n"," ","o","f"," ","l","o","w"," ",
    "s","o","l","u","t","e"," ","c","o","n","c","e","n","t","r","a","t","i",
    "o","n"," ","t","o"," ","o","n","e"," ","t","h","a","t"," ","i","s"," ",
    "s","a","l","t","i","e","r",".">>
\* '2 cells divide'
TXT_2_cells == <<"2"," ","c","e","l","l","s"," ","d","i","v","i","d","e">>
\* ' cells divide'
TXT_cells == <<" ","c","e","l","l","s"," ","d","i","v","i","d","e">>

\* the pages extract_page_content is called with
CachePages ==
  {[page_num |-> 1, text |-> TXT_long_high],
   [page_num |-> 1, text |-> TXT_long_saltier],
   [page_num |-> 2, text |-> TXT_long_high],
   [page_num |-> 1, text |-> TXT_2_cells],
   [page_num |-> 12, text |-> TXT_cells]}

\* the most calls of extract_page_content on the instance
MaxExtractCalls == 3

\* a new LLMSummarizer, on Groq or on Ollama
InitCache ==
  /\ construction = Idle
  /\ use_llm = FALSE /\ has_llm = FALSE /\ results = << >>
  /\ pc = "idle" /\ run = << >> /\ progress = << >>
  /\ rank_st = Idle /\ dedup_st = Idle /\ class_st = Idle /\ kw_st = Idle
  /\ clean_st = Idle /\ qa_st = Idle
  /\ cache = << >> /\ calls = << >>
  /\ \E use_groq \in BOOLEAN :
       llm_st = [pc |-> "cache", use_groq |-> use_groq, returns |-> << >>]

CacheOthersUnchanged ==
  UNCHANGED <<construction, use_llm, has_llm, results, pc, run, progress,
              rank_st, dedup_st, class_st, kw_st, clean_st, qa_st>>

\* what a call of extract_page_content was given and what it returned
Return(page, cache_key, content) ==
  [page_num |-> page.page_num, text |-> page.text, key |-> cache_key,
   content |-> content]

\* extract_page_content(page_text, page_num) with its key in the cache
ExtractCached ==
  /\ llm_st.pc = "cache" /\ Len(llm_st.returns) < MaxExtractCalls
  /\ \E page \in CachePages :
       LET cache_key == CacheKey(page.text, page.page_num)
       IN /\ InCache(cache, cache_key)
          /\ llm_st' = [llm_st EXCEPT !.returns =
                          Append(@, Return(page, cache_key,
                                           CacheGet(cache, cache_key)))]
  /\ UNCHANGED <<cache, calls>>
  /\ CacheOthersUnchanged

\* extract_page_content(page_text, page_num) with its key not in the cache
ExtractRequested ==
  /\ llm_st.pc = "cache" /\ Len(llm_st.returns) < MaxExtractCalls
  /\ \E page \in CachePages, o \in ServiceOutcomes(PageBodies) :
       LET cache_key == CacheKey(page.text, page.page_num)
           response == Generate(llm_st.use_groq, o)
           content == ParseResponse(response, page.page_num)
       IN /\ ~InCache(cache, cache_key)
          /\ calls' = Append(calls, [key |-> cache_key, failed |-> Failed(o),
                                     response |-> response])
          /\ cache' = CachePut(cache, cache_key, content)
          /\ llm_st' = [llm_st EXCEPT !.returns =
                          Append(@, Return(page, cache_key, content))]
  /\ CacheOthersUnchanged

NextCache == ExtractCached \/ ExtractRequested

SpecCache == InitCache /\ [][NextCache]_vars

\* the first call of extract_page_content with the key of the j-th call
FirstWithKey(returns, j) ==
  CHOOSE i \in 1..j :
     /\ returns[i].key = returns[j].key
     /\ \A k \in 1..(i - 1) : returns[k].key # returns[j].key

\* C15: over the calls of extract_page_content on one instance, the service
\* is asked at most once for each cache key (the page number followed by the
\* first 100 characters of the page text), and a call with a key used before
\* returns what the first call with that key returned, also when the request
\* of that first call failed and gave four empty sections
C15_OneRequestPerKey ==
  llm_st.pc = "cache" =>
     /\ \A i, j \in 1..Len(calls) : i # j => calls[i].key # calls[j].key
     /\ \A j \in 1..Len(llm_st.returns) :
           /\ llm_st.returns[j].key
                = IntToStr(llm_st.returns[j].page_num)
                  \o Prefix(llm_st.returns[j].text, CachePrefixLen)
           /\ \E i \in 1..Len(calls) : calls[i].key = llm_st.returns[j].key
           /\ llm_st.returns[j].content
                = llm_st.returns[FirstWithKey(llm_st.returns, j)].content

\* a first call whose request failed, then a call with another text of the
\* same key that gets the four empty sections without a request, and a
\* third call with another key that is answered with items
C15_Witness ==
  /\ llm_st.pc = "cache" /\ Len(llm_st.returns) = 3 /\ Len(calls) = 2
  /\ calls[1].failed /\ ~calls[2].failed
  /\ llm_st.returns[1].key = llm_st.returns[2].key
  /\ llm_st.returns[1].text # llm_st.returns[2].text
  /\ ZeroItems(llm_st.returns[2].content)
  /\ ~ZeroItems(llm_st.returns[3].content)


(***************************************************************************)
(* The generative path of generate_notes on long documents: the service    *)
(* answers every page with the same body or not at all, and fails a        *)
(* bounded number of times.                                                *)
(***************************************************************************)
\* the most pages of a document, and the most failed page requests of a run
MaxLongPages == 22
MaxFailedCalls == 1

\* 'Osmosis.'
TXT_long_doc_page ==
  <<"O","s","m","o","s","i","s",".">>

\* what extract_text returns for a document of n pages with this text
LongDocument(n) ==
  CHOOSE r \in {ExtractionResult(JoinPages(pages_data), pages_data, n) :
                  pages_data \in {[k \in 1..n |->
                                     [page_num |-> k, text |-> TXT_long_doc_page,
                                      word_count |-> Len(SplitWS(TXT_long_doc_page))]]}} :
    TRUE

\* the numbers of pages of the documents
LongPageCounts == {MaxLLMPages \div 2} \cup ((MaxLLMPages - 1)..MaxLongPages)

\* how many requests of the run have failed
FailedCalls == Cardinality({k \in 1..Len(calls) : calls[k].failed})

\* the outcomes of a page request
LongOutcomes ==
  {[kind |-> "response", status |-> StatusOK, body |-> RESP_sections]}
  \cup (IF FailedCalls < MaxFailedCalls
        THEN {[kind |-> "timeout", status |-> 0, body |-> << >>]} ELSE {})

\* an instance whose probe of the service succeeded
InitLong ==
  /\ \E use_groq \in BOOLEAN :
       construction = [pc |-> "done", use_llm |-> TRUE, raised |-> FALSE,
                       probed |-> TRUE, use_groq |-> use_groq,
                       probe_ok |-> TRUE]
  /\ use_llm = TRUE /\ has_llm = TRUE /\ cache = << >> /\ results = << >>
  /\ pc = "idle" /\ run = [no |-> 0, outcome |-> "none"]
  /\ calls = << >> /\ progress = << >>
  /\ rank_st = Idle /\ dedup_st = Idle /\ class_st = Idle /\ kw_st = Idle
  /\ clean_st = Idle /\ qa_st = Idle /\ llm_st = Idle

\* Step 1 on a long document
LongExtract ==
  /\ pc = "idle" /\ run.no = 0
  /\ \E n \in LongPageCounts : run' = NewRun(1, LongDocument(n))
  /\ pc' = "extracted"
  /\ calls' = << >> /\ progress' = << >>
  /\ UNCHANGED <<construction, use_llm, has_llm, cache, results>>
  /\ ComponentsUnchanged

\* one turn of the page loop on a long document
LongPageRequest == PageRequestWith(LongOutcomes)

NextLong ==
  \/ LongExtract
  \/ StartGenerative
  \/ LongPageRequest
  \/ Synthesize
  \/ GenerateQA

SpecLong == InitLong /\ [][NextLong]_vars

\* the positions of the requests of a phase among the requests of the run
CallsOf(phase) == {k \in 1..Len(calls) : calls[k].phase = phase}

\* min(n, 20) for the n pages of the document
ProcessedPages == Min(Len(run.extraction_result.pages), MaxLLMPages)

\* C16: in the generative path of a run the page requests are for pages
\* among the first min(n, 20) only and in increasing order, each after the
\* one before has ended; once the page loop is over there is exactly one
\* synthesis request, after the last page request, and once synthesis is
\* over exactly one question request, after the synthesis request; the
\* run makes at most min(n, 20) + 2 requests
C16_SequentialBoundedCalls ==
  (run.no > 0 /\ run.outcome = "running" /\ InGenerativePath) =>
     /\ \A k \in CallsOf("page") : calls[k].i \in 1..ProcessedPages
     /\ \A j, k \in CallsOf("page") : j < k => calls[j].i < calls[k].i
     /\ \A j \in CallsOf("page"), k \in CallsOf("synthesis") : j < k
     /\ \A j \in CallsOf("synthesis"), k \in CallsOf("qa") : j < k
     /\ Cardinality(CallsOf("synthesis")) = (IF PastSynthesis THEN 1 ELSE 0)
     /\ Cardinality(CallsOf("qa")) = (IF PastQA THEN 1 ELSE 0)
     /\ Len(calls) <= ProcessedPages + 2
     /\ DOMAIN calls = CallsOf("page") \cup CallsOf("synthesis") \cup CallsOf("qa")

\* a run on a document of 22 pages that has made its 20 page requests, one
\* of them failed, the synthesis request and the question request
C16_Witness ==
  /\ run.no > 0 /\ PastQA
  /\ Len(run.extraction_result.pages) = MaxLLMPages + 2
  /\ Len(calls) = MaxLLMPages + 2
  /\ \A k \in 1..MaxLLMPages : calls[k].phase = "page" /\ calls[k].i = k
  /\ \E k \in 1..MaxLLMPages : calls[k].failed
  /\ calls[MaxLLMPages + 1].phase = "synthesis"
  /\ calls[MaxLLMPages + 2].phase = "qa"


\* C17: generate_notes never changes the backend chosen at construction:
\* use_llm is the same after every step of a run as before it.  A run of
\* an instance on the generative backend never holds rule-based structured
\* content, whatever requests fail, and its bundle has ai_generated true,
\* one content for every processed page (with no items where the request
\* failed) and the questions of the generative backend (none when that
\* request failed), not rule-based ones; a run of an instance on the
\* rule-based backend makes no request and holds no generative content.
C17_BackendNeverSwitched ==
  /\ [][construction.pc = "done" => use_llm' = use_llm /\ has_llm' = has_llm]_vars
  /\ [](run.no > 0 =>
          IF use_llm /\ has_llm
          THEN /\ "all_points" \notin DOMAIN run.structured_content
               /\ run.candidates = << >>
               /\ (CallEnded /\ run.outcome = "returned") =>
                    /\ BundleOfRun
                    /\ results.metadata.ai_generated = TRUE
                    /\ results.structured_data.llm_generated
                    /\ Len(results.structured_data.pages_content) = ProcessedPages
                    /\ results.qa_pairs = results.structured_data.qa_pairs
                    /\ \A k \in CallsOf("qa") :
                          calls[k].failed => results.qa_pairs = << >>
                    /\ \A k \in CallsOf("page") :
                          calls[k].failed =>
                            ZeroItems(results.structured_data.pages_content[calls[k].i])
          ELSE /\ calls = << >> /\ run.llm_pages_content = << >>
               /\ "llm_generated" \notin DOMAIN run.structured_content)

\* a run on the generative backend has returned a bundle with ai_generated
\* true, no item and no question: the requests of both pages and the
\* question request failed
C17_Witness ==
  /\ use_llm /\ has_llm
  /\ CallEnded /\ run.outcome = "returned" /\ BundleOfRun
  /\ Cardinality({k \in CallsOf("page") : calls[k].failed}) = 2
  /\ \E k \in CallsOf("qa") : calls[k].failed
  /\ results.metadata.ai_generated = TRUE
  /\ results.metadata.points_extracted = 0
  /\ results.qa_pairs = << >>


(***************************************************************************)
(* The parsing of the service's responses by LLMSummarizer:                *)
(* _extract_section and the second half of generate_qa, each applied to    *)
(* responses made of a few pieces.                                         *)
(***************************************************************************)
\* nine bullet lines with the four kinds of marker
RESP_nine_bullets ==
  <<"-"," ","O","s","m","o","s","i","s"," ","m","o","v","e","s"," ","w","a",
    "t","e","r"," ","a","c","r","o","s","s"," ","m","e","m","b","r","a","n",
    "e","s","\n",BulletChar," ","D","i","f","f","u","s","i","o","n"," ","s",
    "p","r","e","a","d","s"," ","s","o","l","u","t","e","s"," ","e","v","e",
    "n","l","y","\n","*"," ","T","u","r","g","o","r"," ","k","e","e","p","s",
    " ","p","l","a","n","t"," ","c","e","l","l","s"," ","f","i","r","m","\n",
    "1","."," ","P","l","a","c","e"," ","t","h","e"," ","c","e","l","l"," ",
    "i","n"," ","f","r","e","s","h"," ","w","a","t","e","r","\n","2","."," ",
    "W","a","t","c","h"," ","t","h","e"," ","c","e","l","l"," ","s","w","e",
    "l","l"," ","s","l","o","w","l","y","\n","-"," ","P","l","a","s","m","o",
    "l","y","s","i","s"," ","s","h","r","i","n","k","s"," ","t","h","e"," ",
    "c","e","l","l","\n",BulletChar," ","A","c","t","i","v","e"," ","t","r",
    "a","n","s","p","o","r","t"," ","n","e","e","d","s"," ","e","n","e","r",
    "g","y","\n","*"," ","M","e","m","b","r","a","n","e","s"," ","l","e","t",
    " ","w","a","t","e","r"," ","p","a","s","s"," ","f","r","e","e","l","y",
    "\n","1","2","."," ","R","e","c","o","r","d"," ","t","h","e"," ","f","i",
    "n","a","l"," ","c","e","l","l"," ","v","o","l","u","m","e">>
\* a bullet too short to keep and two whose content begins with digits or
\* dots
RESP_digit_bullets ==
  <<"-"," ","t","o","o"," ","s","h","o","r","t","\n","-"," ","2","0","2","4",
    " ","w","a","s"," ","t","h","e"," ","w","a","r","m","e","s","t"," ","y",
    "e","a","r"," ","o","n"," ","r","e","c","o","r","d","\n","1","."," ",".",
    ".",".","a","n","d"," ","s","o"," ","t","h","e"," ","c","e","l","l"," ",
    "b","u","r","s","t","s"," ","o","p","e","n">>
\* a line that is no bullet
RESP_plain_line ==
  <<"H","e","r","e"," ","a","r","e"," ","t","h","e"," ","k","e","y"," ","f",
    "a","c","t","s"," ","o","f"," ","t","h","i","s"," ","p","a","g","e">>
\* a bullet cut by a header in the middle of the line
RESP_header_in_line ==
  <<" "," ","*"," ","C","e","l","l","s"," ","a","r","e"," ","l","i","s","t",
    "e","d"," ","u","n","d","e","r"," ","I","M","P","O","R","T","A","N","T",
    "_","P","O","I","N","T","S",":"," ","a","n","d"," ","n","o","w","h","e",
    "r","e"," ","e","l","s","e">>
\* 'Q1: What is osmosis?' and its answer
RESP_q1_a1 ==
  <<"Q","1",":"," ","W","h","a","t"," ","i","s"," ","o","s","m","o","s","i",
    "s","?","\n","A","1",":"," ","T","h","e"," ","m","o","v","e","m","e","n",
    "t"," ","o","f"," ","w","a","t","e","r",".">>
\* 'Q2: Why do cells swell?' and its answer
RESP_q2_a2 ==
  <<"Q","2",":"," ","W","h","y"," ","d","o"," ","c","e","l","l","s"," ","s",
    "w","e","l","l","?","\n","\n","A","2",":"," ","W","a","t","e","r"," ","e",
    "n","t","e","r","s"," ","b","y"," ","o","s","m","o","s","i","s","."
      >>
\* a question with no answer
RESP_q3 ==
  <<"Q","3",":"," ","W","h","a","t"," ","i","s"," ","d","i","f","f","u","s",
    "i","o","n","?">>
\* a line that begins with A and holds a colon
RESP_also_note ==
  <<"A","l","s","o"," ","n","o","t","e",":"," ","c","e","l","l","s"," ","s",
    "w","e","l","l",".">>
\* a line that begins with Q and holds a colon
RESP_quite_simply ==
  <<"Q","u","i","t","e"," ","s","i","m","p","l","y",":"," ","i","t"," ","d",
    "e","p","e","n","d","s",".">>

\* the header of a section and a bullet line
RESP_concepts_section ==
  <<"C","O","N","C","E","P","T","S",":","\n","-"," ","C","e","l","l","s",
      " ","n","e","e","d"," ","w","a","t","e","r"," ","t","o"," ","l","i","v","e">>

\* the pieces a response is made of, and the most pieces of a response
ResponsePieces ==
  {SEC_DEFINITIONS, RESP_concepts_section, RESP_nine_bullets,
   RESP_digit_bullets, RESP_plain_line, RESP_header_in_line, RESP_q1_a1,
   RESP_q2_a2, RESP_q3, RESP_also_note, RESP_quite_simply}
MaxPieces == 3

\* a response of the service, before it is parsed
InitParse ==
  /\ construction = Idle
  /\ use_llm = FALSE /\ has_llm = FALSE /\ cache = << >> /\ results = << >>
  /\ pc = "idle" /\ run = << >> /\ calls = << >> /\ progress = << >>
  /\ rank_st = Idle /\ dedup_st = Idle /\ class_st = Idle /\ kw_st = Idle
  /\ clean_st = Idle /\ qa_st = Idle
  /\ \E pieces \in SeqsUpTo(ResponsePieces, MaxPieces) :
       llm_st = [pc |-> "response", response |-> Join(pieces, <<"\n">>),
                 section_name |-> << >>, items |-> << >>,
                 num_questions |-> 0, qa_pairs |-> << >>,
                 content |-> << >>]

ParseOthersUnchanged ==
  UNCHANGED <<ngvars, qa_st, rank_st, dedup_st, class_st, kw_st, clean_st>>

\* _extract_section(text, section_name)
ExtractSectionCall ==
  /\ llm_st.pc = "response"
  /\ \E section_name \in next_sections :
       llm_st' = [llm_st EXCEPT !.pc = "section",
                    !.section_name = section_name,
                    !.items = ExtractSection(llm_st.response, section_name)]
  /\ ParseOthersUnchanged

\* generate_qa from the response on
ParseQACall ==
  /\ llm_st.pc = "response"
  /\ \E num_questions \in {1, NumQuestions} :
       llm_st' = [llm_st EXCEPT !.pc = "qa",
                    !.num_questions = num_questions,
                    !.qa_pairs = ParseQA(llm_st.response, num_questions)]
  /\ ParseOthersUnchanged

\* _parse_response(response, page_num)
ParseResponseCall ==
  /\ llm_st.pc = "response"
  /\ \E page_num \in 1..2 :
       llm_st' = [llm_st EXCEPT !.pc = "parsed",
                    !.content = ParseResponse(llm_st.response, page_num)]
  /\ ParseOthersUnchanged

NextParse == ExtractSectionCall \/ ParseQACall \/ ParseResponseCall

SpecParse == InitParse /\ [][NextParse]_vars

\* the positions (from 0) where a header begins in a text
HeaderPositions(text, header) ==
  {p \in 0..(Len(text) - Len(header)) : Slice(text, p, p + Len(header)) = header}

\* the least of a set of numbers
Least(S) == CHOOSE x \in S : \A y \in S : x <= y

\* the lines of a response after the line of the first header of a section
\* and before the next header of another section
LinesOfSection(text, section_name) ==
  LET start == Least(HeaderPositions(text, section_name))
      later == UNION {{p \in HeaderPositions(text, header) : p > start} :
                        header \in next_sections \ {section_name}}
      end == IF later = {} THEN Len(text) ELSE Least(later)
  IN Tail(SplitOn(Slice(text, start, end), "\n"))

\* C18: for every response, the empty and the malformed ones too,
\* _extract_section returns a list; the list is empty when the header is not
\* in the response; it has at most 8 items, each longer than 10 characters
\* and each a part of a bullet line between the header of the section and
\* the next header of another section
C18_SectionItemsBounded ==
  llm_st.pc = "section" =>
     /\ HeaderPositions(llm_st.response, llm_st.section_name) = {}
          => llm_st.items = << >>
     /\ Len(llm_st.items) <= MaxItemsPerSection
     /\ llm_st.items # << >> =>
          \A lines \in {LinesOfSection(llm_st.response, llm_st.section_name)} :
             \A k \in 1..Len(llm_st.items) :
                /\ Len(llm_st.items[k]) > MinItemLen
                /\ \E n \in 1..Len(lines) :
                      /\ Strip(lines[n]) # << >>
                      /\ Strip(lines[n])[1]
                           \in {"-", BulletChar, "*"} \cup DigitChars
                      /\ Contains(lines[n], llm_st.items[k])

\* the section DEFINITIONS: of a response with more than 8 bullet lines
\* before the header CONCEPTS:, which has bullet lines after it
C18_Witness ==
  /\ llm_st.pc = "section" /\ llm_st.section_name = SEC_DEFINITIONS
  /\ Len(llm_st.items) = MaxItemsPerSection
  /\ Len(LinesOfSection(llm_st.response, SEC_DEFINITIONS)) > MaxItemsPerSection
  /\ HeaderPositions(llm_st.response, SEC_CONCEPTS) # {}
  /\ LinesOfSection(llm_st.response, SEC_CONCEPTS) # << >>

\* a bullet line without its marker: one of '-', the bullet and '*', or a
\* number and a full stop
MarkerRemoved(line) ==
  LET digits == Len(line) - Len(LStripChars(line, DigitChars))
  IN IF line[1] \in {"-", BulletChar, "*"} THEN Tail(line)
     ELSE IF digits > 0 /\ digits < Len(line) /\ line[digits + 1] = "."
          THEN Slice(line, digits + 1, Len(line))
          ELSE line

\* C19: every item that _extract_section returns is a bullet line of the
\* section without its leading marker ('-', the bullet, '*' or a number and
\* a full stop) and without the whitespace around it, no other character
\* removed, also when the content begins with digits or dots
C19_OnlyMarkerRemoved ==
  (llm_st.pc = "section" /\ llm_st.items # << >>) =>
     \A lines \in {LinesOfSection(llm_st.response, llm_st.section_name)} :
        \A k \in 1..Len(llm_st.items) :
           \E n \in 1..Len(lines) :
              /\ IsBulletLine(Strip(lines[n]))
              /\ llm_st.items[k] = Strip(MarkerRemoved(Strip(lines[n])))

\* whether a line begins with the letter, a number and a colon
HasExactPrefix(line, letter) ==
  LET digits == Len(Tail(line)) - Len(LStripChars(Tail(line), DigitChars))
  IN /\ line # << >> /\ line[1] = letter
     /\ digits > 0 /\ digits + 1 < Len(line) /\ line[digits + 2] = ":"

\* C20: generate_qa returns a pair (q, a) only for a line 'Qn:' with the
\* non-empty question q that is followed, with no other line 'Qn:' between
\* them, by a line 'An:' with the answer a; the pairs are in the order of
\* the response, each from lines of its own, so that the lines without
\* these prefixes give no pair and change no pending question; and at most
\* num_questions pairs are returned
C20_ExactPrefixPairs ==
  llm_st.pc = "qa" =>
     \A lines \in {[n \in 1..Len(SplitOn(llm_st.response, "\n")) |->
                      Strip(SplitOn(llm_st.response, "\n")[n])]} :
        /\ Len(llm_st.qa_pairs) <= llm_st.num_questions
        /\ \E at \in [1..Len(llm_st.qa_pairs) -> (1..Len(lines)) \X (1..Len(lines))] :
              /\ \A k \in 1..Len(llm_st.qa_pairs) :
                    /\ at[k][1] < at[k][2]
                    /\ HasExactPrefix(lines[at[k][1]], "Q")
                    /\ HasExactPrefix(lines[at[k][2]], "A")
                    /\ llm_st.qa_pairs[k].question = AfterColon(lines[at[k][1]])
                    /\ llm_st.qa_pairs[k].question # << >>
                    /\ llm_st.qa_pairs[k].answer = AfterColon(lines[at[k][2]])
                    /\ \A n \in (at[k][1] + 1)..(at[k][2] - 1) :
                          ~HasExactPrefix(lines[n], "Q")
              /\ \A j, k \in 1..Len(llm_st.qa_pairs) :
                    j < k => at[j][2] < at[k][1]


(***************************************************************************)
(* Summarizer.generate_summary (modules/summarizer.py), exercised on its   *)
(* own on lists of up to MaxSummarySentences sentences.  As in SpecRank a  *)
(* sentence is its position in the list and the scores are an input.       *)
(***************************************************************************)
\* the most sentences of one input list
MaxSummarySentences == 32
\* a min_sentences other than the default, a max_sentences that is given
SmallMinSentences == 3
GivenMaxSentences == 25

\* int(total_sentences * summary_ratio) for summary_ratio = 0.7 (the float
\* product truncates to this for every total up to 89)
RatioCount(total_sentences) == (total_sentences * 7) \div 10

\* target_count of generate_summary; max_sentences is None or a count, and
\* 'if max_sentences:' is false for None and for 0
TargetCount(total_sentences, min_sentences, max_sentences) ==
  LET target_count == Max(min_sentences, RatioCount(total_sentences))
  IN IF max_sentences # None /\ max_sentences # 0
     THEN Min(target_count, max_sentences) ELSE target_count

\* a call of generate_summary
InitSummary ==
  /\ IdleNG
  /\ dedup_st = Idle /\ class_st = Idle /\ kw_st = Idle /\ clean_st = Idle
  /\ \E n \in 0..MaxSummarySentences :
       \E sc \in ScoreVectors(n) :
         \E lo \in {SummaryMinSentences, SmallMinSentences} :
           \E hi \in {None, GivenMaxSentences} :
             rank_st = [pc |-> "summary", sentences |-> [i \in 1..n |-> i],
                        scores |-> sc, min_sentences |-> lo,
                        max_sentences |-> hi, top_n |-> None,
                        ranked |-> << >>, top_indices |-> << >>,
                        out |-> << >>, result |-> << >>]

\* if not sentences: return {'summary': '', 'sentences': [], 'ratio': 0}
SummaryEmpty ==
  /\ rank_st.pc = "summary" /\ rank_st.sentences = << >>
  /\ rank_st' = [rank_st EXCEPT
       !.pc = "summarized",
       !.result = [sentences |-> << >>, ratio |-> [num |-> 0, den |-> 1]]]
  /\ UNCHANGED <<ngvars, qavars, dedup_st, class_st, kw_st, clean_st>>

\* target_count, and the call of get_top_sentences(sentences, top_n=target_count)
SummaryTarget ==
  /\ rank_st.pc = "summary" /\ rank_st.sentences # << >>
  /\ rank_st' = [rank_st EXCEPT
       !.pc = "called",
       !.top_n = TargetCount(Len(rank_st.sentences), rank_st.min_sentences,
                             rank_st.max_sentences)]
  /\ UNCHANGED <<ngvars, qavars, dedup_st, class_st, kw_st, clean_st>>

\* the dictionary generate_summary returns
SummaryReturn ==
  /\ rank_st.pc = "returned" /\ "result" \in DOMAIN rank_st
  /\ rank_st' = [rank_st EXCEPT
       !.pc = "summarized",
       !.result = [sentences |-> rank_st.out,
                   original_count |-> Len(rank_st.sentences),
                   summary_count |-> Len(rank_st.out),
                   ratio |-> [num |-> Len(rank_st.out),
                              den |-> Len(rank_st.sentences)]]]
  /\ UNCHANGED <<ngvars, qavars, dedup_st, class_st, kw_st, clean_st>>

NextSummary ==
  \/ SummaryEmpty
  \/ SummaryTarget
  \/ RankStep
  \/ SelectStep
  \/ ReturnStep
  \/ SummaryReturn

SpecSummary == InitSummary /\ [][NextSummary]_vars

\* ceil(total * 0.7)
CeilRatioCount(total) == (total * 7 + 9) \div 10

\* C21: with max_sentences not given and the default min_sentences,
\* generate_summary returns exactly min(total, max(20, ceil(total * 0.7)))
\* sentences of its total input sentences
C21_CeilingTarget ==
  (/\ rank_st.pc = "summarized"
   /\ rank_st.max_sentences = None
   /\ rank_st.min_sentences = SummaryMinSentences) =>
     Len(rank_st.result.sentences) =
       Min(Len(rank_st.sentences),
           Max(SummaryMinSentences, CeilRatioCount(Len(rank_st.sentences))))


\* a lowercase letter at position i of s immediately followed by a
\* capitalized word of three or more letters
MissedBoundaryAt(s, i) ==
  /\ i + 3 <= Len(s)
  /\ IsLower(s[i]) /\ IsUpper(s[i + 1])
  /\ IsLower(s[i + 2]) /\ IsLower(s[i + 3])

\* C22: wherever the text given to clean_concatenated_text has a lowercase
\* letter immediately followed by a capitalized word of three or more
\* letters, the output has a period and a space between the two ("endNext"
\* becomes "end. Next")
C22_BoundaryReinserted ==
  (clean_st.pc = "once" /\ clean_st.fn = "clean_concatenated_text") =>
     \A i \in 1..Len(clean_st.text) :
        MissedBoundaryAt(clean_st.text, i) =>
          Contains(clean_st.once,
                   <<clean_st.text[i], ".", " ">>
                     \o SubSeq(clean_st.text, i + 1, i + 3))


\* C23: every record returned by extract_page_content(page_text, page_num)
\* has its page field equal to the page_num of that call, over any
\* sequence of calls on one instance, calls answered from the cache
\* included
C23_PageOfTheCall ==
  llm_st.pc = "cache" =>
     \A j \in 1..Len(llm_st.returns) :
        llm_st.returns[j].content.page = llm_st.returns[j].page_num


\* C24: a generate_notes run that ends with an insufficient-content error
\* (fewer than 10 words, or fewer than 2 usable sentences) has made no
\* page-extraction, synthesis or question request to the generative service
C24_NoRequestBeforeInsufficient ==
  (CallEnded /\ run.outcome = "raised"
   /\ run.error \in {"insufficient_text", "not_enough_sentences"}) =>
     calls = << >>


\* NotesGenerator.get_stats
GetStats(res) ==
  IF res = << >> THEN << >>
  ELSE [total_sentences |-> res.metadata.sentence_count,
        summary_sentences |-> Len(res.summary.sentences),
        key_points |-> Len(res.key_points),
        keywords |-> Len(res.keywords),
        questions |-> Len(res.qa_pairs),
        compression_ratio |-> res.summary.compression_ratio]

\* C25: no step of a generate_notes call other than its return changes the
\* stored results, the step that raises an insufficient-content error
\* included: after a call that raised, the results are what they were
\* before it (empty, or the bundle of an earlier call that returned), and
\* get_stats reports what it reported before
C25_FailedCallKeepsResults ==
  /\ [][(construction.pc = "done" /\ (pc' # "idle" \/ run'.outcome = "raised"))
          => (results' = results /\ GetStats(results') = GetStats(results))]_vars
  /\ [](CallEnded /\ run.outcome = "raised" =>
          (results = << >> \/ results.metadata.generated_at < run.no))

\* a second call that made its requests and then raised for want of
\* sentences, on an instance that holds the bundle of its first call
C25_Witness ==
  /\ CallEnded /\ run.no = 2 /\ run.outcome = "raised"
  /\ run.error = "not_enough_sentences" /\ calls # << >>
  /\ results # << >> /\ results.metadata.generated_at = 1
  /\ GetStats(results).total_sentences >= MinDocSentences


(***************************************************************************)
(* TextPreprocessor.preprocess (modules/text_preprocessor.py) exercised on *)
(* its own, on texts made of a few sentences: the sentence list it         *)
(* returns.  clean_st holds the call.                                      *)
(***************************************************************************)
\* 'Cells need water to live.'
TXT_pre_cells ==
  <<"C","e","l","l","s"," ","n","e","e","d"," ","w","a","t","e","r"," ","t",
      "o"," ","l","i","v","e",".">>
\* the same sentence in capitals
TXT_pre_cells_upper ==
  <<"C","E","L","L","S"," ","N","E","E","D"," ","W","A","T","E","R"," ","T",
      "O"," ","L","I","V","E",".">>
\* the same sentence without its final period
TXT_pre_cells_open ==
  <<"C","e","l","l","s"," ","n","e","e","d"," ","w","a","t","e","r"," ","t",
      "o"," ","l","i","v","e">>
\* the same sentence with a space before its period
TXT_pre_cells_spaced ==
  <<"C","e","l","l","s"," ","n","e","e","d"," ","w","a","t","e","r"," ","t",
      "o"," ","l","i","v","e"," ",".">>
\* 'Salt draws water out of cells!'
TXT_pre_salt ==
  <<"S","a","l","t"," ","d","r","a","w","s"," ","w","a","t","e","r"," ","o",
      "u","t"," ","o","f"," ","c","e","l","l","s","!">>
\* a sentence of fewer than five words
TXT_pre_short ==
  <<"T","o","o"," ","s","h","o","r","t",".">>
\* a line of numbering
TXT_pre_numbers ==
  <<"1"," ","2"," ","3"," ","4"," ","5"," ","6",".">>

\* the sentences the texts are made of
PreSentences ==
  {TXT_pre_cells, TXT_pre_cells_upper, TXT_pre_cells_open,
   TXT_pre_cells_spaced, TXT_pre_salt, TXT_pre_short, TXT_pre_numbers}

\* the most sentences of a text
MaxPreSentences == 3

\* the call preprocess(text)
InitPreprocess ==
  /\ IdleNG
  /\ rank_st = Idle /\ dedup_st = Idle /\ kw_st = Idle /\ class_st = Idle
  /\ \E n \in 1..MaxPreSentences : \E parts \in [1..n -> PreSentences] :
        clean_st = [pc |-> "preprocess", text |-> Join(parts, <<" ">>),
                    sentences |-> << >>, cleaned_sentences |-> << >>]

\* sentences = self.tokenize_sentences(text)
PreTokenize ==
  /\ clean_st.pc = "preprocess"
  /\ clean_st' = [clean_st EXCEPT
        !.pc = "tokenized", !.sentences = TokenizeSentences(clean_st.text)]
  /\ CleanOthersUnchanged

\* cleaned_sentences = [self.clean_sentence(s) for s in sentences], and the
\* return of the dictionary that holds them
PreClean ==
  /\ clean_st.pc = "tokenized"
  /\ clean_st' = [clean_st EXCEPT
        !.pc = "returned",
        !.cleaned_sentences =
           [i \in 1..Len(clean_st.sentences) |->
              CleanSentence(clean_st.sentences[i])]]
  /\ CleanOthersUnchanged

NextPreprocess == PreTokenize \/ PreClean

SpecPreprocess == InitPreprocess /\ [][NextPreprocess]_vars

\* C26: the sentence list preprocess returns holds no two sentences that
\* are equal when compared case-insensitively
C26_NoTwoEqualSentences ==
  clean_st.pc = "returned" =>
     \A i, j \in 1..Len(clean_st.cleaned_sentences) :
        i # j => Lower(clean_st.cleaned_sentences[i])
                   # Lower(clean_st.cleaned_sentences[j])


(***************************************************************************)
(* ContentDeduplicator.deduplicate_list applied to a list and then to its  *)
(* own output, on an instance whose seen_content holds texts or not.       *)
(***************************************************************************)
\* what self.seen_content holds when deduplicate_list is called
SeenBefore == {{}, {TXT_rug, TXT_today}}

\* the call deduplicate_list(texts)
InitTwice ==
  /\ IdleNG
  /\ rank_st = Idle /\ class_st = Idle /\ kw_st = Idle /\ clean_st = Idle
  /\ \E n \in 0..MaxTexts : \E texts \in [1..n -> DedupTexts] :
       \E seen \in SeenBefore :
          dedup_st = [pc |-> "call", texts |-> texts, seen_content |-> seen,
                      unique_texts |-> << >>, again |-> << >>]

\* deduplicate_list(texts)
DedupListFirst ==
  /\ dedup_st.pc = "call"
  /\ dedup_st' = [dedup_st EXCEPT
        !.pc = "once", !.unique_texts = DeduplicateList(dedup_st.texts)]
  /\ DedupOthersUnchanged

\* deduplicate_list applied to what it returned
DedupListSecond ==
  /\ dedup_st.pc = "once"
  /\ dedup_st' = [dedup_st EXCEPT
        !.pc = "twice", !.again = DeduplicateList(dedup_st.unique_texts)]
  /\ DedupOthersUnchanged

NextTwice == DedupListFirst \/ DedupListSecond

SpecTwice == InitTwice /\ [][NextTwice]_vars

\* sub is seq with some of its elements left out: the elements of sub are
\* elements of seq at increasing positions
RECURSIVE IsSubsequence(_, _)
IsSubsequence(sub, seq) ==
  IF sub = << >> THEN TRUE
  ELSE IF seq = << >> THEN FALSE
  ELSE IF Head(sub) = Head(seq) THEN IsSubsequence(Tail(sub), Tail(seq))
  ELSE IsSubsequence(sub, Tail(seq))

\* C27: deduplicate_list is order-preserving and idempotent: what it
\* returns is a subsequence of its input, and applied to what it returned
\* it returns the same list; it leaves the deduplicator's seen_content as
\* it was, and returns the same list whatever seen_content holds
C27_IdempotentSubsequence ==
  /\ [][dedup_st'.seen_content = dedup_st.seen_content]_vars
  /\ [](dedup_st.pc = "once" =>
          /\ IsSubsequence(dedup_st.unique_texts, dedup_st.texts)
          /\ dedup_st.unique_texts
               = C6_TextsAt(dedup_st.texts, Len(dedup_st.texts),
                            C6_KeptPositions(dedup_st.texts, Len(dedup_st.texts))))
  /\ [](dedup_st.pc = "twice" => dedup_st.again = dedup_st.unique_texts)

\* a list of three texts of which the second, similar to the first, was
\* dropped, on an instance whose seen_content holds the third; the second
\* application returned the two kept texts again
C27_Witness ==
  /\ dedup_st.pc = "twice"
  /\ dedup_st.texts = <<TXT_cat, TXT_cat_bang, TXT_rug>>
  /\ dedup_st.seen_content = {TXT_rug, TXT_today}
  /\ dedup_st.unique_texts = <<TXT_cat, TXT_rug>>
  /\ dedup_st.again = <<TXT_cat, TXT_rug>>


(***************************************************************************)
(* One ContentDeduplicator over a sequence of is_duplicate and reset       *)
(* calls: self.seen_content and what every call returned.                  *)
(***************************************************************************)
MaxSeenCalls == 3

\* the texts given to is_duplicate
SeenTexts == {TXT_cat, TXT_cat_bang, TXT_rug, TXT_short}

\* reference_texts: None, or a list
NoReference == [given |-> FALSE, texts |-> << >>]

References ==
  {[given |-> TRUE, texts |-> << >>], [given |-> TRUE, texts |-> <<TXT_cat>>]}

\* comparison_set = reference_texts if reference_texts is not None
\*                  else self.seen_content
ComparisonSet(reference_texts, seen_content) ==
  IF reference_texts.given
  THEN {reference_texts.texts[k] : k \in 1..Len(reference_texts.texts)}
  ELSE seen_content

\* what is_duplicate returns
IsDuplicate(text, comparison_set) ==
  \/ TooShort(text)
  \/ \E seen \in comparison_set :
        AtLeastThreshold(CalculateSimilarity(text, seen))

\* self.seen_content after is_duplicate: the text is added when the call
\* is about to return False
SeenAfter(seen_content, text, dup) ==
  IF dup THEN seen_content ELSE seen_content \cup {text}

\* ContentDeduplicator()
InitSeen ==
  /\ IdleNG
  /\ rank_st = Idle /\ class_st = Idle /\ kw_st = Idle /\ clean_st = Idle
  /\ dedup_st = [pc |-> "seen", seen_content |-> {}, log |-> << >>]

\* is_duplicate(text, reference_texts)
IsDuplicateWith(text, reference_texts) ==
  LET dup == IsDuplicate(text,
                 ComparisonSet(reference_texts, dedup_st.seen_content))
  IN /\ dedup_st.pc = "seen"
     /\ Len(dedup_st.log) < MaxSeenCalls
     /\ dedup_st' = [dedup_st EXCEPT
           !.seen_content = SeenAfter(dedup_st.seen_content, text, dup),
           !.log = Append(dedup_st.log,
                     [op |-> "is_duplicate", text |-> text,
                      reference_texts |-> reference_texts, result |-> dup])]
     /\ DedupOthersUnchanged

\* is_duplicate(text)
IsDuplicateSeen == \E text \in SeenTexts : IsDuplicateWith(text, NoReference)

\* is_duplicate(text, reference_texts) with a list
IsDuplicateReference ==
  \E text \in SeenTexts : \E reference_texts \in References :
     IsDuplicateWith(text, reference_texts)

\* reset()
ResetSeen ==
  /\ dedup_st.pc = "seen"
  /\ Len(dedup_st.log) < MaxSeenCalls
  /\ dedup_st' = [dedup_st EXCEPT
        !.seen_content = {},
        !.log = Append(dedup_st.log,
                  [op |-> "reset", text |-> << >>,
                   reference_texts |-> NoReference, result |-> FALSE])]
  /\ DedupOthersUnchanged

NextSeen == IsDuplicateSeen \/ IsDuplicateReference \/ ResetSeen

SpecSeen == InitSeen /\ [][NextSeen]_vars

\* no reset() among the calls i+1 .. j-1 of the log
NoResetBetween(log, i, j) ==
  \A k \in (i + 1)..(j - 1) : log[k].op # "reset"

\* the call k of the log is is_duplicate without a reference list
OwnCall(log, k) ==
  log[k].op = "is_duplicate" /\ ~log[k].reference_texts.given

\* the texts for which is_duplicate without a reference list returned
\* False since the last reset
OwnFalseSinceReset(log) ==
  {log[k].text : k \in {i \in 1..Len(log) :
       /\ OwnCall(log, i) /\ ~log[i].result
       /\ NoResetBetween(log, i, Len(log) + 1)}}

\* C28: is_duplicate called with a reference list leaves the seen set as
\* it was: the seen set holds exactly the texts for which a call without
\* a reference list returned False since the last reset, so that what a
\* call without a list returns depends on no call that was given one
C28_ReferenceCallsLeaveSeen ==
  dedup_st.pc = "seen" => dedup_st.seen_content = OwnFalseSinceReset(dedup_st.log)

\* C29: with the internal seen set, once is_duplicate(t) returned False for
\* a text of 10 trimmed characters or more, every later is_duplicate(t)
\* before the next reset returns True; a shorter text always gets True and
\* is never in the seen set; after reset the seen set is empty
C29_SeenOnceThenDuplicate ==
  dedup_st.pc = "seen" =>
    LET log == dedup_st.log
    IN /\ \A i \in 1..Len(log) : \A j \in (i + 1)..Len(log) :
            ( /\ OwnCall(log, i) /\ ~log[i].result
              /\ OwnCall(log, j) /\ log[j].text = log[i].text
              /\ NoResetBetween(log, i, j) )
            => (~TooShort(log[i].text) /\ log[j].result)
       /\ \A k \in 1..Len(log) :
            (log[k].op = "is_duplicate" /\ TooShort(log[k].text))
            => log[k].result
       /\ \A t \in dedup_st.seen_content : ~TooShort(t)
       /\ (log # << >> /\ log[Len(log)].op = "reset")
            => dedup_st.seen_content = {}

\* is_duplicate('The cat sat on the mat.') returned False and then True,
\* and after reset() the seen set is empty
C29_Witness ==
  /\ dedup_st.pc = "seen"
  /\ Len(dedup_st.log) = 3
  /\ OwnCall(dedup_st.log, 1) /\ OwnCall(dedup_st.log, 2)
  /\ dedup_st.log[1].text = TXT_cat /\ ~dedup_st.log[1].result
  /\ dedup_st.log[2].text = TXT_cat /\ dedup_st.log[2].result
  /\ dedup_st.log[3].op = "reset"
  /\ dedup_st.seen_content = {}


(***************************************************************************)
(* The parts of a response that _extract_section reads for the four        *)
(* headers of _parse_response.                                             *)
(***************************************************************************)
\* the positions (from 1) of text[start:end] for a section, none when the
\* header is not in the text
SectionRegion(text, section_name) ==
  IF ~Contains(text, section_name) THEN {}
  ELSE LET start == Find(text, section_name)
       IN (start + 1)..SectionEnd(text, section_name, start)

\* the lines of the response (numbered from 1) from which _extract_section
\* takes an item for a section, before the cut to 8 items
ReturnedLines(text, section_name) ==
  IF ~Contains(text, section_name) THEN {}
  ELSE LET start == Find(text, section_name)
           end == SectionEnd(text, section_name, start)
           lines == SplitOn(Slice(text, start, end), "\n")
           first == Len(SplitOn(Slice(text, 0, start), "\n"))
       IN {first + k - 1 : k \in {j \in 2..Len(lines) :
             /\ IsBulletLine(Strip(lines[j]))
             /\ Len(Strip(LStripChars(Strip(lines[j]), BulletStripChars)))
                  > MinItemLen}}

\* C30: for every response, the parts of the text that _extract_section
\* reads for two different headers have no position in common, and no
\* line of the response gives an item to more than one section of the
\* record that _parse_response builds
C30_SectionsDoNotOverlap ==
  llm_st.pc = "parsed" =>
    \A h1 \in next_sections : \A h2 \in next_sections \ {h1} :
       /\ SectionRegion(llm_st.response, h1)
            \cap SectionRegion(llm_st.response, h2) = {}
       /\ ReturnedLines(llm_st.response, h1)
            \cap ReturnedLines(llm_st.response, h2) = {}

\* a response with the section CONCEPTS: and its bullet line before the
\* header DEFINITIONS: and nine bullet lines: both sections of the record
\* have items
C30_Witness ==
  /\ llm_st.pc = "parsed"
  /\ llm_st.response
       = Join(<<RESP_concepts_section, SEC_DEFINITIONS, RESP_nine_bullets>>,
              <<"\n">>)
  /\ Len(llm_st.content.concepts) = 1
  /\ Len(llm_st.content.definitions) = MaxItemsPerSection
  /\ llm_st.content.procedures = << >>

=============================================================================
